---- MODULE Spec2Model ----
(***************************************************************************)
(* A model of blinkpy's BuildResolver                                      *)
(* (third_party/blink/tools/blinkpy/tool/commands/build_resolver.py).      *)
(*                                                                         *)
(* Python values are encoded as follows.  None is the string "None"; a     *)
(* dict key that is not present is the string "<absent>".  A Build is a    *)
(* record [builder_name, build_number, build_id, bucket]; Buildbucket      *)
(* numbers builds from 1, and build_number 0 encodes Python's None (both   *)
(* are falsy in `if build.build_number`).  A TryJobStatus is a record      *)
(* [status, result].  A dict keyed by Build is the set of its items        *)
(* [build, status], with at most one item per build.                       *)
(***************************************************************************)
EXTENDS Integers, Sequences, FiniteSets, TLC

None == "None"
Absent == "<absent>"

(***************************************************************************)
(* Sequences over S of length at most n.                                   *)
(***************************************************************************)
SeqUpTo(S, n) == UNION {[1..k -> S] : k \in 0..n}

(***************************************************************************)
(* TryJobStatus and the Buildbucket status conversion (blinkpy.common.net  *)
(* .git_cl): SCHEDULED and STARTED keep their name and carry no result,    *)
(* every other Buildbucket status is COMPLETED with that result.           *)
(***************************************************************************)
TryJobStatus(status, result) == [status |-> status, result |-> result]

BB_STATUSES == {"SCHEDULED", "STARTED", "SUCCESS", "FAILURE", "INFRA_FAILURE", "CANCELED"}

from_bb_status(bb_status) ==
    IF bb_status \in {"SCHEDULED", "STARTED"}
    THEN TryJobStatus(bb_status, None)
    ELSE TryJobStatus("COMPLETED", bb_status)

(* A variant whose placeholder carries its name as the result as well. *)
TRIGGERED_with_result == TryJobStatus("TRIGGERED", "TRIGGERED")

TRIGGERED == TryJobStatus("TRIGGERED", None)

(* A variant in which the placeholder of a builder that cannot be triggered *)
(* reads TRIGGERED.                                                        *)
MISSING_as_triggered == TryJobStatus("TRIGGERED", None)

MISSING == TryJobStatus("MISSING", None)

(***************************************************************************)
(* blinkpy.common.exit_codes.ERROR_CODES: interrupted (SIGINT + 128),      *)
(* early exit, missing system dependencies, no tests, no devices,          *)
(* unexpected error.                                                       *)
(***************************************************************************)
ERROR_CODES == {130, 251, 252, 253, 254, 255}

(***************************************************************************)
(* Python's int() on the exit codes a shard summary carries: Swarming      *)
(* reports exit codes as decimal strings.                                  *)
(***************************************************************************)
ExitCodeStrings == {"0", "1", "130", "255"}

int(x) ==
    CASE x = "0" -> 0
      [] x = "1" -> 1
      [] x = "130" -> 130
      [] x = "255" -> 255

(* shard.get('exit_code', 0), then int(): the default 0 is already an int. *)
shard_exit_code(shard) ==
    IF shard.exit_code = Absent THEN 0 ELSE int(shard.exit_code)

_shard_interrupted(shard) == shard_exit_code(shard) \in ERROR_CODES

(***************************************************************************)
(* run_web_tests_pattern.fullmatch(name), on the step names of the model.  *)
(* The pattern is                                                          *)
(*   [\w_-]*(webdriver|blink_(web|wpt))_tests.*\(with patch\)[^|]*         *)
(***************************************************************************)
StepNames ==
    {"blink_web_tests (with patch)",
     "blink_wpt_tests (with patch) on Mac",
     "blink_web_tests (without patch)",
     "compile (with patch)"}

(* A variant whose pattern lacks the "(with patch)" part. *)
run_web_tests_pattern_any_suffix(name) ==
    name \in {"blink_web_tests (with patch)",
              "blink_wpt_tests (with patch) on Mac",
              "blink_web_tests (without patch)"}

run_web_tests_pattern_fullmatch(name) ==
    name \in {"blink_web_tests (with patch)",
              "blink_wpt_tests (with patch) on Mac"}

(***************************************************************************)
(* What a GET of a log's viewUrl yields, with .json() applied: a raised    *)
(* exception, or the decoded summary, a dict with or without 'shards'.     *)
(* A shard is a dict whose 'exit_code' may be absent.                      *)
(***************************************************************************)
Raises(exception) == [kind |-> exception, has_shards |-> FALSE, shards |-> <<>>]

Summary(shards) == [kind |-> "dict", has_shards |-> TRUE, shards |-> shards]

EmptySummary == [kind |-> "dict", has_shards |-> FALSE, shards |-> <<>>]

NoSummary == [kind |-> None, has_shards |-> FALSE, shards |-> <<>>]

Shard(exit_code) == [exit_code |-> exit_code]

(* A variant in which a decoding error is no RequestException. *)
IsRequestException_transport_only(exception) == exception = "RequestException"

(* requests.exceptions.JSONDecodeError derives from RequestException. *)
IsRequestException(exception) ==
    exception \in {"RequestException", "JSONDecodeError"}

log_name == "chromium_swarming.summary"

Log(name, response) == [name |-> name, response |-> response]

(***************************************************************************)
(* _fetch_swarming_summary, from log i of the step on: the first log named *)
(* log_name is fetched; a suppressed exception leaves the `with` block and *)
(* the loop goes on to the next log.  fetches counts the GETs issued.      *)
(***************************************************************************)
(* A variant without the suppression: a failed GET raises. *)
RECURSIVE fetch_from_unsuppressed(_, _)
fetch_from_unsuppressed(logs, i) ==
    IF i > Len(logs)
    THEN [summary |-> NoSummary, fetches |-> 0, raised |-> FALSE]
    ELSE IF logs[i].name = log_name
    THEN LET got == logs[i].response IN
         IF got.kind = "dict"
         THEN [summary |-> got, fetches |-> 1, raised |-> FALSE]
         ELSE [summary |-> NoSummary, fetches |-> 1, raised |-> TRUE]
    ELSE fetch_from_unsuppressed(logs, i + 1)

RECURSIVE fetch_from(_, _)
fetch_from(logs, i) ==
    IF i > Len(logs)
    THEN [summary |-> NoSummary, fetches |-> 0, raised |-> FALSE]
    ELSE IF logs[i].name = log_name
    THEN LET got == logs[i].response IN
         IF got.kind = "dict"
         THEN [summary |-> got, fetches |-> 1, raised |-> FALSE]
         ELSE IF IsRequestException(got.kind)
         THEN LET rest == fetch_from(logs, i + 1) IN
              [rest EXCEPT !.fetches = @ + 1]
         ELSE [summary |-> NoSummary, fetches |-> 1, raised |-> TRUE]
    ELSE fetch_from(logs, i + 1)

_fetch_swarming_summary(step) == fetch_from(step.logs, 1)

(* A variant that looks at the first shard only. *)
shards_of_first_only(summary) ==
    IF summary.kind = "dict" /\ summary.has_shards /\ summary.shards # <<>>
    THEN <<summary.shards[1]>> ELSE <<>>

(* (summary or {}).get('shards', []) *)
shards_of(summary) ==
    IF summary.kind = "dict" /\ summary.has_shards THEN summary.shards ELSE <<>>

Raised == [status |-> TryJobStatus(None, None), raised |-> TRUE]

(***************************************************************************)
(* The step loop of _status_if_interrupted from step i on.  fetches is the *)
(* sequence of the indices of the steps a GET was issued for so far.       *)
(***************************************************************************)
RECURSIVE scan_steps(_, _, _)
scan_steps(raw_build, i, fetches) ==
    IF i > Len(raw_build.steps)
    THEN [status |-> from_bb_status(raw_build.status),
          raised |-> FALSE, fetches |-> fetches]
    ELSE IF run_web_tests_pattern_fullmatch(raw_build.steps[i].name)
    THEN LET got == _fetch_swarming_summary(raw_build.steps[i])
             shards == shards_of(got.summary)
             issued == fetches \o [k \in 1..got.fetches |-> i]
         IN IF got.raised
            THEN [status |-> Raised.status, raised |-> TRUE, fetches |-> issued]
            ELSE IF \E k \in 1..Len(shards) : _shard_interrupted(shards[k])
            THEN [status |-> from_bb_status("INFRA_FAILURE"),
                  raised |-> FALSE, fetches |-> issued]
            ELSE scan_steps(raw_build, i + 1, issued)
    ELSE scan_steps(raw_build, i + 1, fetches)

(* A variant that does not look at failure_type. *)
_status_if_interrupted_steps_only(raw_build) == scan_steps(raw_build, 1, <<>>)

(* A variant that scans the steps before it looks at failure_type. *)
_status_if_interrupted_scan_first(raw_build) ==
    LET scanned == scan_steps(raw_build, 1, <<>>) IN
    IF raw_build.failure_type \notin {Absent, None, "TEST_FAILURE"}
    THEN [status |-> from_bb_status("INFRA_FAILURE"),
          raised |-> FALSE, fetches |-> scanned.fetches]
    ELSE scanned

_status_if_interrupted(raw_build) ==
    IF raw_build.failure_type \notin {Absent, None, "TEST_FAILURE"}
    THEN [status |-> from_bb_status("INFRA_FAILURE"),
          raised |-> FALSE, fetches |-> <<>>]
    ELSE scan_steps(raw_build, 1, <<>>)

(***************************************************************************)
(* The raw build records the classifier is checked on.                     *)
(***************************************************************************)
MaxSteps == 2

FailureTypes == {Absent, None, "TEST_FAILURE", "COMPILE_FAILURE"}

ShardLists ==
    {<<>>, <<Shard(Absent)>>, <<Shard("0")>>, <<Shard("1")>>, <<Shard("130")>>,
     <<Shard("255")>>,
     <<Shard("0"), Shard("130")>>, <<Shard("130"), Shard("0")>>}

Responses ==
    {Raises("RequestException"), Raises("JSONDecodeError"), EmptySummary}
    \cup {Summary(shards) : shards \in ShardLists}

LogLists ==
    {<<>>, <<Log("stdout", EmptySummary)>>}
    \cup {<<Log(log_name, r)>> : r \in Responses}
    \cup {<<Log("stdout", EmptySummary), Log(log_name, Summary(<<Shard("130")>>))>>,
            <<Log(log_name, Raises("RequestException")), Log("stdout", EmptySummary)>>}

(* _fetch_swarming_summary does not require the names of a step's logs to  *)
(* differ: lists with a second log named log_name, which is fetched when   *)
(* the GET of the first fails.                                             *)
RepeatedSummaryLogLists ==
    {<<Log(log_name, Raises("RequestException")),
       Log(log_name, Summary(<<Shard("130")>>))>>,
     <<Log(log_name, Raises("JSONDecodeError")),
       Log(log_name, Summary(<<Shard("0")>>))>>,
     <<Log(log_name, Raises("RequestException")),
       Log(log_name, Raises("RequestException"))>>}

Step(name, logs) == [name |-> name, logs |-> logs]

Steps ==
    {Step("blink_web_tests (with patch)", logs) :
        logs \in LogLists \cup RepeatedSummaryLogLists}
    \cup {Step(name, <<Log(log_name, Summary(<<Shard("130")>>))>>) :
            name \in StepNames \ {"blink_web_tests (with patch)"}}

RawBuild(id, number, builder, bucket, status, failure_type, steps) ==
    [id |-> id, number |-> number, builder |-> builder, bucket |-> bucket,
     status |-> status, failure_type |-> failure_type, steps |-> steps]

RawBuilds ==
    {RawBuild("8001", 1, "linux-rel", "try", status, failure_type, steps) :
        status \in BB_STATUSES, failure_type \in FailureTypes,
        steps \in SeqUpTo(Steps, MaxSteps)}

(***************************************************************************)
(* Build (blinkpy.common.net.rpc): builder_name, build_number, build_id,   *)
(* bucket, with the defaults None, None and 'try'.  A build id is opaque;  *)
(* the id of build number n of a builder is <<builder, n>> and None is <<>>.*)
(***************************************************************************)
NoId == <<>>

Build(builder_name, build_number, build_id, bucket) ==
    [builder_name |-> builder_name, build_number |-> build_number,
     build_id |-> build_id, bucket |-> bucket]

BuildOf(builder_name) == Build(builder_name, 0, NoId, "try")

Item(build, status) == [build |-> build, status |-> status]

Keys(statuses) == {it.build : it \in statuses}

Values(statuses) == {it.status : it \in statuses}

StatusOf(statuses, build) == (CHOOSE it \in statuses : it.build = build).status

(* dict.update: the items of `other` replace those with an equal key. *)
Update(statuses, other) ==
    {it \in statuses : it.build \notin Keys(other)} \cup other

(***************************************************************************)
(* The requests put to resolve_builds.                                     *)
(***************************************************************************)
MaxBuilds == 2

BuilderNames == {"linux-rel", "mac-rel"}

Buckets == {"try", "ci"}

RequestedNumbers == {0, 1, 2}

RequestedBuilds ==
    {Build(name, number, NoId, bucket) :
        name \in BuilderNames, number \in RequestedNumbers, bucket \in Buckets}

(***************************************************************************)
(* The Buildbucket client's pending batch: add_get_build_req and           *)
(* add_search_builds_req append a request, execute_batch answers them.     *)
(***************************************************************************)
(* BuildResolver._build_fields, the field mask every request is made with. *)
_build_fields ==
    {"id", "number", "builder.builder", "builder.bucket", "status",
     "output.properties", "steps.*.name", "steps.*.logs.*.name",
     "steps.*.logs.*.view_url"}

GetBuildReq(build) ==
    [op |-> "get_build", build |-> build, build_fields |-> _build_fields]

SearchBuildsReq(build) ==
    [op |-> "search_builds", build |-> build, build_fields |-> _build_fields]

Call(op, builders) == [op |-> op, builders |-> builders]

VARIABLES
    can_trigger_jobs,       \* self._can_trigger_jobs
    issue_number,           \* what git_cl.get_issue_number() returns
    bb_queue,               \* the requests pending in git_cl.bb_client
    builds,                 \* the argument of resolve_builds
    pc,                     \* where the resolve_builds call stands
    try_builders_to_infer,  \* resolve_builds' local
    build_statuses,         \* resolve_builds' local
    key_order,              \* the keys of build_statuses in the dict's order
    writes,                 \* the values stored into build_statuses, in order
    responses,              \* the records execute_batch returned, <<>> before
    try_jobs_found,         \* what git_cl.latest_try_jobs returned, {} before
    calls,                  \* the calls made on the collaborators, in order
    log,                    \* the lines logged, in order
    outcome,                \* "running", "returned" or the exception raised
    raw_build,              \* the record handed to the classifier
    classified,             \* the classifier's results for raw_build, in order
    futures,                \* the io_pool's finished tasks, as they finished
    zipped,                 \* the pairs the dict comprehension has taken
    macos_version,          \* what commands.macos_version() returns
    display_output,         \* what `codesign --display` yields for the part
    lipo_output,            \* what `lipo -detailed_info` prints for the app
    config,                 \* the CodeSignConfig handed to signing.py
    part,                   \* the CodeSignedProduct handed to signing.py
    commands_run,           \* the commands signing.py has run, in order
    signing_returned,       \* what the signing.py function returned or raised
    skip_prompts,           \* LegacyRunner._skip_prompts
    iteration,              \* the passes of run_recipe's loop begun so far
    exit_code,              \* run_recipe's local
    rerun_prop_options,     \* run_recipe's local
    props_to_use,           \* run_recipe's local
    invocations,            \* the additional_props of each _run call, in order
    recipe_returned         \* what run_recipe returned or raised

vars ==
    <<can_trigger_jobs, issue_number, bb_queue, builds, pc,
      try_builders_to_infer, build_statuses, key_order, writes, responses,
      try_jobs_found, calls, log, outcome, raw_build, classified,
      futures, zipped,
      macos_version, display_output, lipo_output, config, part, commands_run,
      signing_returned,
      skip_prompts, iteration, exit_code, rerun_prop_options, props_to_use,
      invocations, recipe_returned>>

pool_vars == <<futures, zipped>>

signing_vars ==
    <<macos_version, display_output, lipo_output, config, part, commands_run,
      signing_returned>>

(* No signing.py function is called. *)
NoSigning ==
    /\ macos_version = <<>>
    /\ display_output = <<>>
    /\ lipo_output = <<>>
    /\ config = <<>>
    /\ part = <<>>
    /\ commands_run = <<>>
    /\ signing_returned = <<>>

recipe_vars ==
    <<skip_prompts, iteration, exit_code, rerun_prop_options, props_to_use,
      invocations, recipe_returned>>

(* No run_recipe call is made. *)
NoRecipe ==
    /\ skip_prompts = FALSE
    /\ iteration = 0
    /\ exit_code = 0
    /\ rerun_prop_options = <<>>
    /\ props_to_use = <<>>
    /\ invocations = <<>>
    /\ recipe_returned = <<>>

resolver_vars == <<can_trigger_jobs, issue_number, bb_queue>>

call_vars ==
    <<builds, pc, try_builders_to_infer, build_statuses, key_order, writes,
      responses, try_jobs_found, calls, log, outcome>>

(***************************************************************************)
(* resolve_builds, lines 103-117: the loop over the requested builds.      *)
(***************************************************************************)
(* A variant that infers every try build, numbered or not. *)
needs_inference_any_number(build) == build.bucket = "try"

(* A variant that infers every build without a number, whatever its bucket. *)
needs_inference_any_bucket(build) == build.build_number = 0

needs_inference(build) == build.build_number = 0 /\ build.bucket = "try"

(* A variant that looks at the bucket first: only try builds are fetched *)
(* by number, every CI build is searched for.                            *)
RECURSIVE requests_for_bucket_first(_)
requests_for_bucket_first(bs) ==
    IF bs = <<>> THEN <<>>
    ELSE LET build == Head(bs) IN
         (IF build.bucket # "try" THEN <<SearchBuildsReq(build)>>
          ELSE IF build.build_number # 0 THEN <<GetBuildReq(build)>>
          ELSE <<>>) \o requests_for_bucket_first(Tail(bs))

RECURSIVE requests_for(_)
requests_for(bs) ==
    IF bs = <<>> THEN <<>>
    ELSE LET build == Head(bs) IN
         (IF build.build_number # 0 THEN <<GetBuildReq(build)>>
          ELSE IF build.bucket = "try" THEN <<>>
          ELSE <<SearchBuildsReq(build)>>) \o requests_for(Tail(bs))

builders_to_infer(bs) ==
    {bs[i].builder_name : i \in {j \in 1..Len(bs) : needs_inference(bs[j])}}

Partition ==
    /\ pc = "partition"
    /\ bb_queue' = bb_queue \o requests_for(builds)
    /\ try_builders_to_infer' = builders_to_infer(builds)
    /\ build_statuses' = {}
    /\ key_order' = <<>>
    /\ writes' = <<>>
    /\ pc' = IF builders_to_infer(builds) # {} THEN "infer" ELSE "execute"
    /\ UNCHANGED <<pool_vars, can_trigger_jobs, issue_number, builds, try_jobs_found,
                   responses, calls, log, outcome, raw_build, classified>>
    /\ UNCHANGED <<signing_vars, recipe_vars>>

(***************************************************************************)
(* _build_sort_key and sorted(): builder names compare as strings, so the  *)
(* model ranks its builder names in lexicographic order.  Python's sort is *)
(* stable: builds with equal keys come out in the order of the dict that   *)
(* is sorted, which is the order in which its keys were inserted.          *)
(***************************************************************************)
NameRank(name) == CASE name = "linux-rel" -> 1 [] name = "mac-rel" -> 2

(* A variant that sorts the build numbers of a builder downwards, which puts *)
(* the builds without a number last.                                        *)
_build_sort_key_descending(build) ==
    <<NameRank(build.builder_name), 0 - build.build_number>>

_build_sort_key(build) == <<NameRank(build.builder_name), build.build_number>>

KeyLeq(k1, k2) == k1[1] < k2[1] \/ (k1[1] = k2[1] /\ k1[2] <= k2[2])

(* Every order in which a dict or a set with the keys S can iterate. *)
Orders(S) ==
    {order \in [1..Cardinality(S) -> S] :
        \A i, j \in 1..Cardinality(S) : i # j => order[i] # order[j]}

SortedOrders(S) ==
    {order \in Orders(S) :
        \A i, j \in 1..Cardinality(S) :
            i < j => KeyLeq(_build_sort_key(order[i]), _build_sort_key(order[j]))}

Position(build, keys) == CHOOSE i \in 1..Len(keys) : keys[i] = build

(* The keys of `keys` that are in S, in the order of `keys`. *)
RECURSIVE Restrict(_, _)
Restrict(keys, S) ==
    IF keys = <<>> THEN <<>>
    ELSE (IF Head(keys) \in S THEN <<Head(keys)>> ELSE <<>>)
         \o Restrict(Tail(keys), S)

(* dict.update on the key order: new keys are appended as they come. *)
RECURSIVE Inserted(_, _)
Inserted(keys, new) ==
    IF new = <<>> THEN keys
    ELSE Inserted(IF \E i \in 1..Len(keys) : keys[i] = Head(new)
                  THEN keys ELSE Append(keys, Head(new)),
                  Tail(new))

(* sorted(d, key=_build_sort_key) for a dict d with the keys S, a part of *)
(* the keys `keys` in their order.                                        *)
sorted(S, keys) ==
    CHOOSE order \in SortedOrders(S) :
        \A i, j \in 1..Cardinality(S) :
            (i < j /\ _build_sort_key(order[i]) = _build_sort_key(order[j]))
                => Position(order[i], keys) < Position(order[j], keys)

(***************************************************************************)
(* git_cl.latest_try_jobs(issue_number, builder_names, patchset): for each *)
(* of the builders asked for, at most one build, the latest of the         *)
(* patchset.  A build that is only scheduled may have no number yet.       *)
(***************************************************************************)
LatestNumbers == {2}

LatestTryJobOf(name) ==
    {Item(Build(name, 0, <<name, 0>>, "try"), from_bb_status("SCHEDULED"))}
    \cup {Item(Build(name, n, <<name, n>>, "try"), from_bb_status(s)) :
            n \in LatestNumbers, s \in {"STARTED", "SUCCESS", "FAILURE"}}

LatestTryJobs(builders) ==
    {found \in SUBSET UNION {LatestTryJobOf(name) : name \in builders} :
        \A x, y \in found : x.build.builder_name = y.build.builder_name => x = y}

(* A variant that only asks for a non-empty string. *)
isdigit_nonempty(s) == s # ""

isdigit(s) == s # "None" /\ s # ""

(* A logged line: a message or a table row. *)
Line(level, text) ==
    [level |-> level, text |-> text, builder |-> "", number |-> 0,
     shown |-> "", bucket |-> ""]

(* Line 206: the message names how many builds are fetched. *)
Fetching(builders) ==
    [Line("info", "Fetching status for builds from CL.")
        EXCEPT !.number = Cardinality(builders)]

(***************************************************************************)
(* fetch_or_trigger_try_jobs, given what latest_try_jobs finds: the        *)
(* exception raised or the statuses returned, the calls made and the lines *)
(* logged.                                                                 *)
(***************************************************************************)
(* A variant without the early exit for "no try jobs and no triggering". *)
fetch_or_trigger_try_jobs_no_abort(builders, issue, found, can_trigger) ==
    IF ~isdigit(issue)
    THEN [raised |-> TRUE, statuses |-> {}, lines |-> <<>>,
          calls |-> <<Call("get_issue_number", {})>>]
    ELSE LET builders_without_results ==
                 builders \ {build.builder_name : build \in Keys(found)}
             trigger == can_trigger /\ builders_without_results # {}
             placeholder_status == IF trigger THEN TRIGGERED ELSE MISSING
         IN [raised |-> FALSE, lines |-> <<Fetching(builders)>>,
             statuses |-> Update(found,
                 {Item(BuildOf(builder), placeholder_status) :
                     builder \in builders_without_results}),
             calls |-> <<Call("get_issue_number", {}),
                         Call("latest_try_jobs", builders)>>
                       \o (IF trigger
                           THEN <<Call("trigger_try_jobs", builders_without_results)>>
                           ELSE <<>>)]

(* A variant that gives the placeholder status to every builder asked for. *)
fetch_or_trigger_try_jobs_all_placeholders(builders, issue, found, can_trigger) ==
    IF ~isdigit(issue)
    THEN [raised |-> TRUE, statuses |-> {}, lines |-> <<>>,
          calls |-> <<Call("get_issue_number", {})>>]
    ELSE IF found = {} /\ ~can_trigger
    THEN [raised |-> TRUE, statuses |-> {}, lines |-> <<Fetching(builders)>>,
          calls |-> <<Call("get_issue_number", {}),
                      Call("latest_try_jobs", builders)>>]
    ELSE LET builders_without_results ==
                 builders \ {build.builder_name : build \in Keys(found)}
             trigger == can_trigger /\ builders_without_results # {}
             placeholder_status == IF trigger THEN TRIGGERED ELSE MISSING
         IN [raised |-> FALSE, lines |-> <<Fetching(builders)>>,
             statuses |-> Update(found,
                 {Item(BuildOf(builder), placeholder_status) :
                     builder \in builders}),
             calls |-> <<Call("get_issue_number", {}),
                         Call("latest_try_jobs", builders)>>
                       \o (IF trigger
                           THEN <<Call("trigger_try_jobs", builders_without_results)>>
                           ELSE <<>>)]

(* A variant that triggers every builder asked for. *)
fetch_or_trigger_try_jobs_trigger_all(builders, issue, found, can_trigger) ==
    IF ~isdigit(issue)
    THEN [raised |-> TRUE, statuses |-> {}, lines |-> <<>>,
          calls |-> <<Call("get_issue_number", {})>>]
    ELSE IF found = {} /\ ~can_trigger
    THEN [raised |-> TRUE, statuses |-> {}, lines |-> <<Fetching(builders)>>,
          calls |-> <<Call("get_issue_number", {}),
                      Call("latest_try_jobs", builders)>>]
    ELSE LET builders_without_results ==
                 builders \ {build.builder_name : build \in Keys(found)}
             trigger == can_trigger /\ builders_without_results # {}
             placeholder_status == IF trigger THEN TRIGGERED ELSE MISSING
         IN [raised |-> FALSE, lines |-> <<Fetching(builders)>>,
             statuses |-> Update(found,
                 {Item(BuildOf(builder), placeholder_status) :
                     builder \in builders_without_results}),
             calls |-> <<Call("get_issue_number", {}),
                         Call("latest_try_jobs", builders)>>
                       \o (IF trigger
                           THEN <<Call("trigger_try_jobs", builders)>>
                           ELSE <<>>)]

(* A variant that adds placeholders only for the builders it triggers. *)
fetch_or_trigger_try_jobs_no_missing(builders, issue, found, can_trigger) ==
    IF ~isdigit(issue)
    THEN [raised |-> TRUE, statuses |-> {}, lines |-> <<>>,
          calls |-> <<Call("get_issue_number", {})>>]
    ELSE IF found = {} /\ ~can_trigger
    THEN [raised |-> TRUE, statuses |-> {}, lines |-> <<Fetching(builders)>>,
          calls |-> <<Call("get_issue_number", {}),
                      Call("latest_try_jobs", builders)>>]
    ELSE LET builders_without_results ==
                 builders \ {build.builder_name : build \in Keys(found)}
             trigger == can_trigger /\ builders_without_results # {}
         IN [raised |-> FALSE, lines |-> <<Fetching(builders)>>,
             statuses |-> Update(found,
                 {Item(BuildOf(builder), TRIGGERED) :
                     builder \in (IF trigger THEN builders_without_results ELSE {})}),
             calls |-> <<Call("get_issue_number", {}),
                         Call("latest_try_jobs", builders)>>
                       \o (IF trigger
                           THEN <<Call("trigger_try_jobs", builders_without_results)>>
                           ELSE <<>>)]

(* A variant that aborts when any builder has no build and none can be *)
(* triggered.                                                          *)
fetch_or_trigger_try_jobs_abort_on_any(builders, issue, found, can_trigger) ==
    IF ~isdigit(issue)
    THEN [raised |-> TRUE, statuses |-> {}, lines |-> <<>>,
          calls |-> <<Call("get_issue_number", {})>>]
    ELSE IF builders \ {build.builder_name : build \in Keys(found)} # {}
            /\ ~can_trigger
    THEN [raised |-> TRUE, statuses |-> {}, lines |-> <<Fetching(builders)>>,
          calls |-> <<Call("get_issue_number", {}),
                      Call("latest_try_jobs", builders)>>]
    ELSE LET builders_without_results ==
                 builders \ {build.builder_name : build \in Keys(found)}
             trigger == can_trigger /\ builders_without_results # {}
             placeholder_status == IF trigger THEN TRIGGERED ELSE MISSING
         IN [raised |-> FALSE, lines |-> <<Fetching(builders)>>,
             statuses |-> Update(found,
                 {Item(BuildOf(builder), placeholder_status) :
                     builder \in builders_without_results}),
             calls |-> <<Call("get_issue_number", {}),
                         Call("latest_try_jobs", builders)>>
                       \o (IF trigger
                           THEN <<Call("trigger_try_jobs", builders_without_results)>>
                           ELSE <<>>)]

fetch_or_trigger_try_jobs(builders, issue, found, can_trigger) ==
    IF ~isdigit(issue)
    THEN [raised |-> TRUE, statuses |-> {}, lines |-> <<>>,
          calls |-> <<Call("get_issue_number", {})>>]
    ELSE IF found = {} /\ ~can_trigger
    THEN [raised |-> TRUE, statuses |-> {}, lines |-> <<Fetching(builders)>>,
          calls |-> <<Call("get_issue_number", {}),
                      Call("latest_try_jobs", builders)>>]
    ELSE LET builders_without_results ==
                 builders \ {build.builder_name : build \in Keys(found)}
             trigger == can_trigger /\ builders_without_results # {}
             placeholder_status == IF trigger THEN TRIGGERED ELSE MISSING
         IN [raised |-> FALSE, lines |-> <<Fetching(builders)>>,
             statuses |-> Update(found,
                 {Item(BuildOf(builder), placeholder_status) :
                     builder \in builders_without_results}),
             calls |-> <<Call("get_issue_number", {}),
                         Call("latest_try_jobs", builders)>>
                       \o (IF trigger
                           THEN <<Call("trigger_try_jobs", builders_without_results)>>
                           ELSE <<>>)]

(***************************************************************************)
(* dict.update(other) stores one value for each key of `other`, in the     *)
(* order `keys` of its keys: lines 124 and 132-134.  `by` tells the two    *)
(* updates apart.                                                          *)
(***************************************************************************)
Write(build, status, by) == [build |-> build, status |-> status, by |-> by]

Stored(other, keys, by) ==
    [i \in 1..Len(keys) |-> Write(keys[i], StatusOf(other, keys[i]), by)]

(* resolve_builds, lines 127-130: completed try builds are requested again. *)
(* A variant that requests no inferred build again. *)
rerequested_none(try_build_statuses) == {}

(* A variant that requests every numbered inferred build again. *)
rerequested_any_status(try_build_statuses) ==
    {it.build : it \in {x \in try_build_statuses : x.build.build_number # 0}}

rerequested(try_build_statuses) ==
    {it.build : it \in {x \in try_build_statuses :
        x.build.build_number # 0 /\ x.status.status = "COMPLETED"}}

(***************************************************************************)
(* resolve_builds, lines 121-130.                                          *)
(***************************************************************************)
InferTryJobs ==
    /\ pc = "infer"
    /\ \E found \in (IF isdigit(issue_number)
                     THEN LatestTryJobs(try_builders_to_infer) ELSE {{}}) :
       LET got == fetch_or_trigger_try_jobs(try_builders_to_infer, issue_number,
                                            found, can_trigger_jobs)
       IN /\ try_jobs_found' = found
          /\ calls' = calls
                \o <<Call("fetch_or_trigger_try_jobs", try_builders_to_infer)>>
                \o got.calls
          /\ log' = log \o got.lines
          /\ IF got.raised
             THEN /\ outcome' = "UnresolvedBuildException"
                  /\ pc' = "done"
                  /\ UNCHANGED <<build_statuses, key_order, writes, bb_queue>>
             ELSE /\ build_statuses' = Update(build_statuses, got.statuses)
                  /\ \E jobs \in Orders(Keys(found)),
                        placeholders \in Orders(Keys(got.statuses) \ Keys(found)) :
                        /\ key_order' = Inserted(key_order, jobs \o placeholders)
                        /\ writes' = writes \o Stored(got.statuses,
                                          jobs \o placeholders, "inference")
                        /\ LET order == Restrict(jobs, rerequested(got.statuses))
                           IN bb_queue' = bb_queue
                                \o [i \in 1..Len(order) |-> GetBuildReq(order[i])]
                  /\ pc' = "execute"
                  /\ UNCHANGED outcome
    /\ UNCHANGED <<pool_vars, can_trigger_jobs, issue_number, builds,
                   try_builders_to_infer, responses, raw_build, classified>>
    /\ UNCHANGED <<signing_vars, recipe_vars>>

(***************************************************************************)
(* What Buildbucket answers to a batch.  A get_build request is answered   *)
(* by the record of that build; a build that latest_try_jobs reported as   *)
(* completed keeps its result, also when the same build is requested by    *)
(* number.  A search for the latest failing build of a builder is answered *)
(* by no record or by one.                                                 *)
(***************************************************************************)
InterruptedSteps ==
    <<Step("blink_web_tests (with patch)",
           <<Log(log_name, Summary(<<Shard("0"), Shard("130")>>))>>)>>

(* A web-test step whose summary does not decode. *)
UndecodableSteps ==
    <<Step("blink_web_tests (with patch)",
           <<Log(log_name, Raises("JSONDecodeError"))>>)>>

RawDetails ==
    {[failure_type |-> Absent, steps |-> UndecodableSteps],
     [failure_type |-> "TEST_FAILURE", steps |-> InterruptedSteps]}

(* A build that has not ended has no failure type and no finished shard. *)
DetailsOf(status) ==
    IF status \in {"SCHEDULED", "STARTED"}
    THEN {d \in RawDetails : d.failure_type = Absent}
    ELSE RawDetails

KnownStatuses(build, statuses) ==
    {IF it.status.status = "COMPLETED" THEN it.status.result ELSE it.status.status :
        it \in {x \in statuses :
            /\ x.build.builder_name = build.builder_name
            /\ x.build.build_number = build.build_number
            /\ x.build.bucket = build.bucket}}

ResponseTo(req, statuses) ==
    LET build == req.build
        id == IF build.build_id # NoId THEN build.build_id
              ELSE <<build.builder_name, build.build_number>>
    IN IF req.op = "get_build"
       THEN UNION {
                {<<RawBuild(id, build.build_number, build.builder_name,
                            build.bucket, status, d.failure_type, d.steps)>> :
                    d \in DetailsOf(status)} :
                status \in (IF KnownStatuses(build, statuses) # {}
                            THEN KnownStatuses(build, statuses)
                            ELSE {"STARTED", "FAILURE"})}
       ELSE {<<>>} \cup
            {<<RawBuild(<<build.builder_name, n>>, n,
                        build.builder_name, build.bucket,
                        "FAILURE", d.failure_type, d.steps)>> :
                n \in LatestNumbers, d \in RawDetails}

RECURSIVE BatchResponses(_, _)
BatchResponses(queue, statuses) ==
    IF queue = <<>> THEN {<<>>}
    ELSE {first \o rest : first \in ResponseTo(Head(queue), statuses),
                          rest \in BatchResponses(Tail(queue), statuses)}

(***************************************************************************)
(* _build_statuses_from_responses: every record is classified and keyed by *)
(* Build(builder, number, id, bucket); of two records with the same key    *)
(* the later one stays.  An exception raised by a classification           *)
(* propagates.                                                             *)
(***************************************************************************)
key_of(raw) == Build(raw.builder, raw.number, raw.id, raw.bucket)

RECURSIVE zip_statuses(_)
zip_statuses(raw_builds) ==
    IF raw_builds = <<>> THEN {}
    ELSE LET n == Len(raw_builds) IN
         Update(zip_statuses(SubSeq(raw_builds, 1, n - 1)),
                {Item(key_of(raw_builds[n]),
                      _status_if_interrupted(raw_builds[n]).status)})

_build_statuses_from_responses(raw_builds) ==
    [raised |-> \E i \in 1..Len(raw_builds) :
                    _status_if_interrupted(raw_builds[i]).raised,
     statuses |-> zip_statuses(raw_builds)]

(***************************************************************************)
(* resolve_builds, lines 132-134: the batch is executed and its records    *)
(* are merged into build_statuses; a transport error propagates.           *)
(***************************************************************************)
(* A variant that goes on to the report with what inference gave when the *)
(* batch fails.                                                           *)
ExecuteBatch_swallowing ==
    /\ pc = "execute"
    /\ calls' = Append(calls, Call("execute_batch", {}))
    /\ bb_queue' = <<>>
    /\ \/ /\ outcome' = "RequestException"
          /\ pc' = "report"
          /\ UNCHANGED <<build_statuses, key_order, writes, responses>>
       \/ \E raw_builds \in BatchResponses(bb_queue, build_statuses) :
             LET got == _build_statuses_from_responses(raw_builds)
                 keys == Inserted(<<>>,
                            [i \in 1..Len(raw_builds) |-> key_of(raw_builds[i])])
             IN /\ responses' = raw_builds
                /\ build_statuses' = Update(build_statuses, got.statuses)
                /\ key_order' = Inserted(key_order, keys)
                /\ writes' = writes \o Stored(got.statuses, keys, "batch")
                /\ pc' = "report"
                /\ UNCHANGED outcome
    /\ UNCHANGED <<pool_vars, can_trigger_jobs, issue_number, builds,
                   try_jobs_found, try_builders_to_infer, log, raw_build,
                   classified>>
    /\ UNCHANGED <<signing_vars, recipe_vars>>

ExecuteBatch ==
    /\ pc = "execute"
    /\ calls' = Append(calls, Call("execute_batch", {}))
    /\ bb_queue' = <<>>
    /\ \/ /\ outcome' = "RequestException"
          /\ pc' = "done"
          /\ UNCHANGED <<build_statuses, key_order, writes, responses>>
       \/ \E raw_builds \in BatchResponses(bb_queue, build_statuses) :
             LET got == _build_statuses_from_responses(raw_builds)
                 keys == Inserted(<<>>,
                            [i \in 1..Len(raw_builds) |-> key_of(raw_builds[i])])
             IN /\ responses' = raw_builds
                /\ IF got.raised
                   THEN /\ outcome' = "Exception"
                        /\ pc' = "done"
                        /\ UNCHANGED <<build_statuses, key_order, writes>>
                   ELSE /\ build_statuses' = Update(build_statuses, got.statuses)
                        /\ key_order' = Inserted(key_order, keys)
                        /\ writes' = writes \o Stored(got.statuses, keys, "batch")
                        /\ pc' = "report"
                        /\ UNCHANGED outcome
    /\ UNCHANGED <<pool_vars, can_trigger_jobs, issue_number, builds, try_jobs_found,
                   try_builders_to_infer, log, raw_build, classified>>
    /\ UNCHANGED <<signing_vars, recipe_vars>>

(***************************************************************************)
(* log_builds and its helpers.                                             *)
(***************************************************************************)
Row(level, build, shown) ==
    [level |-> level, text |-> "row", builder |-> build.builder_name,
     number |-> build.build_number, shown |-> shown, bucket |-> build.bucket]

(* GitCL.filter_incomplete: the builds that ended in an infra failure. *)
filter_incomplete(statuses) ==
    Keys({it \in statuses : it.status = from_bb_status("INFRA_FAILURE")})

_warn_about_incomplete_results(order) ==
    IF order = <<>> THEN <<>>
    ELSE <<Line("warning", "Some builds have incomplete results:")>>
         \o [i \in 1..Len(order) |-> Row("warning", order[i], "")]
         \o <<Line("warning", "Examples of incomplete results include:"),
               Line("warning", "  * Shard terminated the harness after timing out."),
               Line("warning", "  * Harness exited early due to excessive unexpected failures."),
               Line("warning", "  * Build failed on a non-test step."),
               Line("warning", "Please consider retrying the failed builders or giving the builders more shards."),
               Line("warning", "See https://chromium.googlesource.com/chromium/src/+/HEAD/docs/testing/web_test_expectations.md#handle-bot-timeouts")>>

(* The status column: `result or '--'` for a finished build, else the status. *)
finished_builds(statuses) == {it \in statuses : it.status.status = "COMPLETED"}

(* A variant that leaves the triggered builds out of the table as well. *)
unfinished_builds_no_triggered(statuses) ==
    {it \in statuses :
        it.status.status \notin {"COMPLETED", "MISSING", "TRIGGERED"}}

unfinished_builds(statuses) ==
    {it \in statuses : it.status.status \notin {"COMPLETED", "MISSING"}}

shown_of(status) ==
    IF status.status = "COMPLETED"
    THEN (IF status.result = None THEN "--" ELSE status.result)
    ELSE status.status

_log_build_statuses(order, statuses) ==
    <<Line("info", "BUILDER NUMBER STATUS BUCKET")>>
    \o [i \in 1..Len(order) |->
            Row("info", order[i], shown_of(StatusOf(statuses, order[i])))]

log_builds(statuses, incomplete, finished, unfinished) ==
    _warn_about_incomplete_results(incomplete)
    \o (IF Cardinality(finished_builds(statuses)) = Cardinality(statuses)
        THEN <<Line("info", "All builds finished.")>>
        ELSE (IF finished_builds(statuses) # {}
              THEN <<Line("info", "Finished builds:")>>
                   \o _log_build_statuses(finished, statuses)
              ELSE <<Line("info", "No finished builds.")>>)
             \o (IF unfinished_builds(statuses) # {}
                 THEN <<Line("info", "Scheduled or started builds:")>>
                      \o _log_build_statuses(unfinished, statuses)
                 ELSE <<>>))

(***************************************************************************)
(* resolve_builds, lines 135-136.                                          *)
(***************************************************************************)
Report ==
    /\ pc = "report"
    /\ IF build_statuses # {}
       THEN LET incomplete == sorted(filter_incomplete(build_statuses), key_order)
                finished == sorted(Keys(finished_builds(build_statuses)), key_order)
                unfinished == sorted(Keys(unfinished_builds(build_statuses)), key_order)
            IN /\ calls' = Append(calls, Call("log_builds", {}))
               /\ log' = log \o log_builds(build_statuses, incomplete,
                                           finished, unfinished)
       ELSE UNCHANGED <<calls, log>>
    /\ pc' = "pending_check"
    /\ UNCHANGED <<pool_vars, can_trigger_jobs, issue_number, bb_queue, builds,
                   try_builders_to_infer, build_statuses, key_order, writes,
                   responses, try_jobs_found, outcome, raw_build, classified>>
    /\ UNCHANGED <<signing_vars, recipe_vars>>

(***************************************************************************)
(* resolve_builds, lines 137-141.                                          *)
(***************************************************************************)
(* A variant that looks for the MISSING placeholder instead. *)
has_pending_missing(statuses) == MISSING \in Values(statuses)

has_pending(statuses) == TRIGGERED \in Values(statuses)

PendingCheck ==
    /\ pc = "pending_check"
    /\ outcome' = IF has_pending(build_statuses)
                  THEN "UnresolvedBuildException" ELSE "returned"
    /\ pc' = "done"
    /\ UNCHANGED <<pool_vars, can_trigger_jobs, issue_number, bb_queue, builds,
                   try_builders_to_infer, build_statuses, key_order, writes,
                   responses, try_jobs_found, calls, log, raw_build, classified>>
    /\ UNCHANGED <<signing_vars, recipe_vars>>

(***************************************************************************)
(* One more classification of raw_build by the resolver's                  *)
(* _status_if_interrupted, with nothing else running: its result is        *)
(* appended to `classified`.                                               *)
(***************************************************************************)
MaxClassifications == 2

Classify ==
    /\ pc = "classify"
    /\ Len(classified) < MaxClassifications
    /\ classified' = Append(classified, _status_if_interrupted(raw_build))
    /\ UNCHANGED <<resolver_vars, call_vars, pool_vars, raw_build>>
    /\ UNCHANGED <<signing_vars, recipe_vars>>

(***************************************************************************)
(* _status_if_interrupted GET by GET.  A call waits at each GET of line    *)
(* 181, and the content behind a viewUrl is not part of the record: what   *)
(* the web serves for a log may change while a call waits and between      *)
(* calls.  A call is kept in `classified` with the record it was given,    *)
(* the content each of its GETs got, and `at`, the step and the log of the *)
(* GET it waits for, <<>> once it has returned.                            *)
(***************************************************************************)
(* The next GET of a call that has come to log l of step k: the next log   *)
(* named log_name of a step whose name matches, <<>> when there is none.   *)
RECURSIVE next_get(_, _, _)
next_get(raw, k, l) ==
    IF k > Len(raw.steps) THEN <<>>
    ELSE IF ~run_web_tests_pattern_fullmatch(raw.steps[k].name)
            \/ l > Len(raw.steps[k].logs)
    THEN next_get(raw, k + 1, 1)
    ELSE IF raw.steps[k].logs[l].name = log_name THEN <<k, l>>
    ELSE next_get(raw, k, l + 1)

(* The call goes on from log l of step k: to its next GET, or to the       *)
(* return of line 172.                                                     *)
onward(call, raw, k, l) ==
    IF next_get(raw, k, l) = <<>>
    THEN [call EXCEPT !.status = from_bb_status(raw.status), !.at = <<>>]
    ELSE [call EXCEPT !.at = next_get(raw, k, l)]

InFlight == classified # <<>> /\ classified[Len(classified)].at # <<>>

(* Lines 152-167: a call begins and comes to its first GET or returns. *)
ClassifyCall ==
    /\ pc = "classify"
    /\ Len(classified) < MaxClassifications
    /\ ~InFlight
    /\ LET call == [raw_build |-> raw_build, status |-> Raised.status,
                    raised |-> FALSE, fetches |-> <<>>, fetched |-> <<>>,
                    at |-> <<>>]
       IN classified' =
              Append(classified,
                     IF raw_build.failure_type \notin {Absent, None, "TEST_FAILURE"}
                     THEN [call EXCEPT !.status = from_bb_status("INFRA_FAILURE")]
                     ELSE onward(call, raw_build, 1, 1))
    /\ UNCHANGED <<resolver_vars, call_vars, pool_vars, raw_build>>
    /\ UNCHANGED <<signing_vars, recipe_vars>>

(* Lines 168-183: the GET the call waits for is answered with what the web *)
(* serves now, and the call goes on to its next GET or returns.            *)
ClassifyGet ==
    /\ pc = "classify"
    /\ InFlight
    /\ LET n == Len(classified)
           k == classified[n].at[1]
           l == classified[n].at[2]
           got == raw_build.steps[k].logs[l].response
           call == [classified[n] EXCEPT
                       !.fetches = Append(@, k),
                       !.fetched = Append(@, [step |-> k, log |-> l, content |-> got])]
       IN classified' =
              [classified EXCEPT ![n] =
                  IF got.kind = "dict"
                  THEN IF \E s \in 1..Len(shards_of(got)) :
                             _shard_interrupted(shards_of(got)[s])
                       THEN [call EXCEPT !.status = from_bb_status("INFRA_FAILURE"),
                                         !.at = <<>>]
                       ELSE onward(call, raw_build, k + 1, 1)
                  ELSE IF IsRequestException(got.kind)
                  THEN onward(call, raw_build, k, l + 1)
                  ELSE [call EXCEPT !.raised = TRUE, !.at = <<>>]]
    /\ UNCHANGED <<resolver_vars, call_vars, pool_vars, raw_build>>
    /\ UNCHANGED <<signing_vars, recipe_vars>>

ServedLater == {Raises("RequestException"), Summary(<<Shard("130")>>)}

(* The web comes to serve something else for one log of the record, once,  *)
(* at any time after the first call has begun.                             *)
WebChanges ==
    /\ pc = "classify"
    /\ classified # <<>>
    /\ raw_build = classified[1].raw_build
    /\ \E k \in 1..Len(raw_build.steps) :
          \E l \in 1..Len(raw_build.steps[k].logs) :
             \E served \in ServedLater \ {raw_build.steps[k].logs[l].response} :
                raw_build' = [raw_build EXCEPT !.steps[k].logs[l].response = served]
    /\ UNCHANGED <<resolver_vars, call_vars, pool_vars, classified>>
    /\ UNCHANGED <<signing_vars, recipe_vars>>

(***************************************************************************)
(* Init: a resolver just constructed (nothing pending in the Buildbucket   *)
(* client) and a resolve_builds call about to run.                         *)
(***************************************************************************)
IssueNumbers == {"1234", "None"}

Constructed ==
    /\ can_trigger_jobs \in BOOLEAN
    /\ issue_number \in IssueNumbers
    /\ bb_queue = <<>>
    /\ try_builders_to_infer = {}
    /\ build_statuses = {}
    /\ key_order = <<>>
    /\ writes = <<>>
    /\ responses = <<>>
    /\ try_jobs_found = {}
    /\ calls = <<>>
    /\ log = <<>>
    /\ outcome = "running"
    /\ classified = <<>>
    /\ futures = <<>>
    /\ zipped = <<>>
    /\ NoSigning
    /\ NoRecipe

Init ==
    /\ Constructed
    /\ builds \in SeqUpTo(RequestedBuilds, MaxBuilds)
    /\ pc = "partition"
    /\ raw_build = RawBuild("8001", 1, "linux-rel", "try", "SUCCESS", Absent, <<>>)

Next == Partition \/ InferTryJobs \/ ExecuteBatch \/ Report \/ PendingCheck

Spec == Init /\ [][Next]_vars

(***************************************************************************)
(* The classifier alone: any record of RawBuilds, classified repeatedly.   *)
(***************************************************************************)
InitClassify ==
    /\ Constructed
    /\ ~can_trigger_jobs
    /\ isdigit(issue_number)
    /\ builds = <<>>
    /\ pc = "classify"
    /\ raw_build \in RawBuilds

SpecClassify == InitClassify /\ [][Classify]_vars

(***************************************************************************)
(* The classifier called again on a record whose logs' content may have    *)
(* changed in between.                                                     *)
(***************************************************************************)
ReclassifiedSteps ==
    {Step("blink_web_tests (with patch)", logs) :
        logs \in {<<Log(log_name, Summary(<<Shard("0")>>))>>,
                  <<Log(log_name, Summary(<<Shard("130")>>))>>,
                  <<Log("stdout", EmptySummary),
                    Log(log_name, Summary(<<Shard("130")>>))>>,
                  <<Log(log_name, Raises("RequestException")),
                    Log(log_name, Summary(<<Shard("130")>>))>>}}
    \cup {Step("blink_web_tests (without patch)",
                <<Log(log_name, Summary(<<Shard("130")>>))>>)}

InitReclassify ==
    /\ InitClassify
    /\ raw_build.status = "FAILURE"
    /\ raw_build.failure_type \in {Absent, "COMPILE_FAILURE"}
    /\ \A k \in 1..Len(raw_build.steps) : raw_build.steps[k] \in ReclassifiedSteps

NextReclassify == ClassifyCall \/ ClassifyGet \/ WebChanges

SpecReclassify == InitReclassify /\ [][NextReclassify]_vars

(***************************************************************************)
(* _build_statuses_from_responses with an io_pool, lines 79-86:            *)
(* io_pool.map submits one task per record at once and the tasks finish in *)
(* any order; zip takes the results from the map's iterator one by one,    *)
(* which waits for the result it is to yield next; the dict comprehension  *)
(* stores each pair as it comes.  `responses` is the list of records.      *)
(***************************************************************************)
PoolRecords ==
    {RawBuild(<<builder, n>>, n, builder, "try", status, d.failure_type, d.steps) :
        builder \in BuilderNames, n \in LatestNumbers,
        status \in {"STARTED", "FAILURE"}, d \in RawDetails}

Future(task, result) == [task |-> task, result |-> result]

Finished(fs) == {fs[i].task : i \in 1..Len(fs)}

(* A variant that yields the results in the order the tasks finished. *)
io_pool_map_as_completed(fs, k) ==
    IF k <= Len(fs) THEN {fs[k].result} ELSE {}

(* Executor.map: the k-th result it yields is that of the k-th task; none *)
(* while that task has not finished.                                      *)
io_pool_map(fs, k) ==
    {fs[i].result : i \in {j \in 1..Len(fs) : fs[j].task = k}}

RECURSIVE dict(_)
dict(pairs) ==
    IF pairs = <<>> THEN {}
    ELSE Update(dict(SubSeq(pairs, 1, Len(pairs) - 1)), {pairs[Len(pairs)]})

PoolTask ==
    /\ pc = "pool"
    /\ \E task \in (1..Len(responses)) \ Finished(futures) :
          futures' = Append(futures,
                            Future(task, _status_if_interrupted(responses[task])))
    /\ UNCHANGED <<resolver_vars, call_vars, zipped, raw_build, classified>>
    /\ UNCHANGED <<signing_vars, recipe_vars>>

PoolZip ==
    /\ pc = "pool"
    /\ Len(zipped) < Len(responses)
    /\ LET k == Len(zipped) + 1 IN
       \E status \in io_pool_map(futures, k) :
          IF status.raised
          THEN /\ outcome' = "Exception"
               /\ pc' = "done"
               /\ UNCHANGED zipped
          ELSE /\ zipped' = Append(zipped, Item(key_of(responses[k]), status.status))
               /\ UNCHANGED <<outcome, pc>>
    /\ UNCHANGED <<resolver_vars, builds, try_builders_to_infer, build_statuses,
                   key_order, writes, responses, try_jobs_found, calls, log,
                   futures, raw_build, classified>>
    /\ UNCHANGED <<signing_vars, recipe_vars>>

PoolReturn ==
    /\ pc = "pool"
    /\ Len(zipped) = Len(responses)
    /\ build_statuses' = dict(zipped)
    /\ outcome' = "returned"
    /\ pc' = "done"
    /\ UNCHANGED <<resolver_vars, builds, try_builders_to_infer, key_order,
                   writes, responses, try_jobs_found, calls, log, pool_vars,
                   raw_build, classified>>
    /\ UNCHANGED <<signing_vars, recipe_vars>>

InitPool ==
    /\ can_trigger_jobs = FALSE
    /\ issue_number = "1234"
    /\ bb_queue = <<>>
    /\ builds = <<>>
    /\ pc = "pool"
    /\ try_builders_to_infer = {}
    /\ build_statuses = {}
    /\ key_order = <<>>
    /\ writes = <<>>
    /\ responses \in SeqUpTo(PoolRecords, MaxBuilds)
    /\ try_jobs_found = {}
    /\ calls = <<>>
    /\ log = <<>>
    /\ outcome = "running"
    /\ raw_build = RawBuild("8001", 1, "linux-rel", "try", "SUCCESS", Absent, <<>>)
    /\ classified = <<>>
    /\ futures = <<>>
    /\ zipped = <<>>
    /\ NoSigning
    /\ NoRecipe

NextPool == PoolTask \/ PoolZip \/ PoolReturn

SpecPool == InitPool /\ [][NextPool]_vars

(***************************************************************************)
(* chrome/installer/mac/signing/signing.py.  A command is a list of words; *)
(* a word is the list of the strings it is put together from, so that      *)
(* os.path.join(a, b) and '=' + reqs are words of several pieces.          *)
(***************************************************************************)
Word(s) == <<s>>

(* os.path.join of a directory and a relative path. *)
join(path, name) == <<path, "/", name>>

Ran(via, command) == [via |-> via, command |-> command]

(* What a function returned (None is <<>>, a bool b is <<b>>) or raised. *)
Returns(value) == [raised |-> None, value |-> value]

Throws(exception) == [raised |-> exception, value |-> <<>>]

Result(function, result) ==
    [function |-> function, raised |-> result.raised, value |-> result.value]

(* CodeSignOptions.to_comma_delimited_string: the names of the options set, *)
(* sorted and joined by commas.                                            *)
to_comma_delimited_string(options) ==
    CASE options = {"restrict", "library"} -> "library,restrict"
      [] options = {"restrict"} -> "restrict"
      [] options = {"library"} -> "library"
      [] OTHER -> ""

(* VerifyOptions.to_list: the flags of the options set, in the order of    *)
(* their declaration.                                                      *)
to_list(options) ==
    (IF "DEEP" \in options THEN <<Word("--deep")>> ELSE <<>>)
    \o (IF "IGNORE_RESOURCES" \in options
        THEN <<Word("--ignore-resources")>> ELSE <<>>)

(* A variant that puts --timestamp before --force. *)
codesign_command_timestamp_first(cfg, product, path, replace_existing_signature) ==
    <<Word("codesign"), Word("--sign"), Word(cfg.identity)>>
    \o (IF cfg.should_notarize THEN <<Word("--timestamp")>> ELSE <<>>)
    \o (IF replace_existing_signature THEN <<Word("--force")>> ELSE <<>>)
    \o (IF product.sign_with_identifier
        THEN <<Word("--identifier"), Word(product.identifier)>> ELSE <<>>)
    \o (IF product.requirements_string # ""
        THEN <<Word("--requirements"), <<"=", product.requirements_string>>>>
        ELSE <<>>)
    \o (IF product.options # {}
        THEN <<Word("--options"), Word(to_comma_delimited_string(product.options))>>
        ELSE <<>>)
    \o (IF product.entitlements # None
        THEN <<Word("--entitlements"), join(path, product.entitlements)>>
        ELSE <<>>)
    \o <<join(path, product.path)>>

(* Invoker.codesign: the command it hands to commands.run_command. *)
codesign_command(cfg, product, path, replace_existing_signature) ==
    <<Word("codesign"), Word("--sign"), Word(cfg.identity)>>
    \o (IF replace_existing_signature THEN <<Word("--force")>> ELSE <<>>)
    \o (IF cfg.should_notarize THEN <<Word("--timestamp")>> ELSE <<>>)
    \o (IF product.sign_with_identifier
        THEN <<Word("--identifier"), Word(product.identifier)>> ELSE <<>>)
    \o (IF product.requirements_string # ""
        THEN <<Word("--requirements"), <<"=", product.requirements_string>>>>
        ELSE <<>>)
    \o (IF product.options # {}
        THEN <<Word("--options"), Word(to_comma_delimited_string(product.options))>>
        ELSE <<>>)
    \o (IF product.entitlements # None
        THEN <<Word("--entitlements"), join(path, product.entitlements)>>
        ELSE <<>>)
    \o <<join(path, product.path)>>

(* list >= list in Python: the first difference decides, a proper prefix *)
(* is the smaller list.                                                  *)
RECURSIVE list_ge(_, _)
list_ge(a, b) ==
    IF b = <<>> THEN TRUE
    ELSE IF a = <<>> THEN FALSE
    ELSE IF Head(a) # Head(b) THEN Head(a) > Head(b)
    ELSE list_ge(Tail(a), Tail(b))

(* int(text, 16) of a string of hexadecimal digits. *)
DigitValue(c) ==
    CASE c = "0" -> 0 [] c = "1" -> 1 [] c = "2" -> 2 [] c = "3" -> 3
      [] c = "4" -> 4 [] c = "5" -> 5 [] c = "6" -> 6 [] c = "7" -> 7
      [] c = "8" -> 8 [] c = "9" -> 9 [] c = "a" -> 10 [] c = "b" -> 11
      [] c = "c" -> 12 [] c = "d" -> 13 [] c = "e" -> 14 [] c = "f" -> 15

RECURSIVE int16(_)
int16(digits) ==
    IF digits = <<>> THEN 0
    ELSE int16(SubSeq(digits, 1, Len(digits) - 1)) * 16
         + DigitValue(digits[Len(digits)])

LINKER_SIGNED_FLAG == 131072

(* flags & LINKER_SIGNED_FLAG, LINKER_SIGNED_FLAG being a power of two. *)
BitAnd(flags, bit) == ((flags \div bit) % 2) * bit

(* A line of codesign's stderr: its first word, the hexadecimal digits of  *)
(* its flags=0x... field (none when it has no such field) and the          *)
(* character after them.  The pattern                                      *)
(*   ^CodeDirectory .* flags=(0x[0-9a-f]+)( |\().*$                        *)
(* matches a CodeDirectory line whose flags are followed by ' ' or '('.    *)
StderrLine(first, flags, next) == [first |-> first, flags |-> flags, next |-> next]

matches_flags(line) ==
    /\ line.first = "CodeDirectory"
    /\ line.flags # <<>>
    /\ line.next \in {" ", "("}

(* re.search: the first line that matches, all such lines when none is asked. *)
search_flags(stderr) ==
    {i \in 1..Len(stderr) :
        /\ matches_flags(stderr[i])
        /\ \A j \in 1..(i - 1) : ~matches_flags(stderr[j])}

display_command(path) ==
    <<Word("codesign"), Word("--display"), Word("--verbose"),
      Word("--arch=arm64"), Word("--"), path>>

(* A variant that does not look at the exit code of codesign --display. *)
_linker_signed_arm64_needs_force_any_exit(version, path, output) ==
    IF list_ge(version, <<10, 16>>)
    THEN [value |-> FALSE, ran |-> <<>>]
    ELSE LET ran == <<Ran("lenient_run_command_output", display_command(path))>>
             match == search_flags(output.stderr)
         IN IF match = {}
            THEN [value |-> FALSE, ran |-> ran]
            ELSE LET flags == int16(output.stderr[CHOOSE i \in match : TRUE].flags)
                 IN [value |-> BitAnd(flags, LINKER_SIGNED_FLAG) # 0, ran |-> ran]

(* _linker_signed_arm64_needs_force: its value and the commands it ran. *)
_linker_signed_arm64_needs_force(version, path, output) ==
    IF list_ge(version, <<10, 16>>)
    THEN [value |-> FALSE, ran |-> <<>>]
    ELSE LET ran == <<Ran("lenient_run_command_output", display_command(path))>>
             match == search_flags(output.stderr)
         IN IF output.returncode # <<0>>
            THEN [value |-> FALSE, ran |-> ran]
            ELSE IF match = {}
            THEN [value |-> FALSE, ran |-> ran]
            ELSE LET flags == int16(output.stderr[CHOOSE i \in match : TRUE].flags)
                 IN [value |-> BitAnd(flags, LINKER_SIGNED_FLAG) # 0, ran |-> ran]

(***************************************************************************)
(* _binary_architectures_offsets.  A line of lipo's output is              *)
(*   "Non-fat file: ... is architecture: <arch>"   kind "non-fat",         *)
(*   "nfat_arch <n>"                                kind "nfat_arch",       *)
(*   "architecture <arch>"                          kind "architecture",    *)
(*   "    offset <n>"                               kind "offset",          *)
(* or any other line, kind "other".                                        *)
(***************************************************************************)
LipoLine(kind, arch, n) == [kind |-> kind, arch |-> arch, n |-> n]

Lines(output, kind) == {i \in 1..Len(output) : output[i].kind = kind}

First(S) == CHOOSE i \in S : \A j \in S : i <= j

(* re.finditer of  ^architecture\s(.+)\n(?:^[^\n]*\n)*?^\s+offset\s(\d+)$  *)
(* from line p on: an architecture line pairs with the nearest offset line *)
(* after it, whatever lines are in between, and the search goes on after   *)
(* that offset line.                                                       *)
RECURSIVE arch_offsets_from(_, _)
arch_offsets_from(output, p) ==
    LET starts == {i \in Lines(output, "architecture") :
                      i >= p /\ \E j \in Lines(output, "offset") : j > i}
    IN IF starts = {} THEN <<>>
       ELSE LET i == First(starts)
                j == First({k \in Lines(output, "offset") : k > i})
            IN <<<<output[i].arch, output[j].n>>>>
               \o arch_offsets_from(output, j + 1)

_binary_architectures_offsets(output) ==
    IF Lines(output, "non-fat") # {}
    THEN Returns(<<<<output[First(Lines(output, "non-fat"))].arch, 0>>>>)
    ELSE IF Lines(output, "nfat_arch") = {}
    THEN Throws("AttributeError")
    ELSE IF output[First(Lines(output, "nfat_arch"))].n
                # Len(arch_offsets_from(output, 1))
    THEN Throws("InvalidLipoArchCountException")
    ELSE Returns(arch_offsets_from(output, 1))

(***************************************************************************)
(* The calls of signing.py the model makes, and what they are made with.   *)
(***************************************************************************)
work == "/$W"

MacosVersions == {<<10>>, <<10, 15>>, <<10, 15, 7>>, <<10, 16>>, <<11, 0>>}

Executable == StderrLine("Executable=test", <<>>, "")

CodeDirectory(flags) == StderrLine("CodeDirectory", flags, "(")

DisplayOutputs ==
    {[returncode |-> <<>>, stderr |-> <<>>],
     [returncode |-> <<1>>,
      stderr |-> <<StderrLine("test: code object is not signed at all", <<>>, "")>>],
     [returncode |-> <<1>>,
      stderr |-> <<Executable, CodeDirectory(<<"2", "0", "0", "0", "2">>)>>],
     [returncode |-> <<0>>, stderr |-> <<Executable>>]}
    \cup {[returncode |-> <<0>>, stderr |-> <<Executable, CodeDirectory(flags)>>] :
            flags \in {<<"2">>, <<"2", "0", "0", "0", "2">>, <<"2", "0", "0", "0", "0">>,
                       <<"1", "0", "0", "0", "2">>, <<"3", "0", "0", "0", "0">>,
                       <<"1", "2", "0", "0", "0", "0">>}}

Configs ==
    [identity : {"[IDENTITY]"}, should_notarize : BOOLEAN,
     app_dir : {"App Product.app"}, app_product : {"App Product"},
     pinned : {FALSE}, main_executable_pinned_geometry : {<<>>},
     run_spctl_assess : BOOLEAN]

Parts ==
    [path : {"Test.app"}, identifier : {"test.signing.app"},
     sign_with_identifier : BOOLEAN,
     requirements_string : {"", "designated => identifier \"test.signing.app\""},
     options : {{}, {"restrict", "library"}},
     entitlements : {None, "entitlements.plist"},
     verify_options : {<<>>, <<{"DEEP"}>>, <<{"IGNORE_RESOURCES"}>>,
                       <<{"DEEP", "IGNORE_RESOURCES"}>>}]

Universal ==
    <<LipoLine("other", "", 0), LipoLine("nfat_arch", "", 2),
      LipoLine("architecture", "x86_64", 0), LipoLine("other", "", 0),
      LipoLine("offset", "", 16384), LipoLine("other", "", 0),
      LipoLine("architecture", "arm64", 0), LipoLine("other", "", 0),
      LipoLine("offset", "", 294912), LipoLine("other", "", 0)>>

LipoOutputs ==
    {<<>>,
     <<LipoLine("other", "", 0), LipoLine("non-fat", "x86_64", 0)>>,
     <<LipoLine("other", "", 0), LipoLine("non-fat", "arm64", 0)>>,
     Universal,
     SubSeq(Universal, 1, 6),
     [Universal EXCEPT ![5] = LipoLine("other", "", 0)],
     [Universal EXCEPT ![9] = LipoLine("offset", "", 999999)]}

Geometries ==
    {<<<<"x86_64", 0>>>>, <<<<"arm64", 0>>>>,
     <<<<"x86_64", 16384>>, <<"arm64", 294912>>>>,
     <<<<"x86_64", 16384>>, <<"arm64", 999999>>>>,
     <<<<"arm64", 294912>>, <<"x86_64", 16384>>>>,
     <<<<"x86_64", 16384>>>>}

PinnedConfigs ==
    {[c EXCEPT !.pinned = TRUE, !.main_executable_pinned_geometry = g] :
        c \in {k \in Configs : k.should_notarize}, g \in Geometries}

(* sign_part(paths, config, part) *)
sign_part ==
    /\ pc = "sign_part"
    /\ LET path == join(work, part.path)
           force == _linker_signed_arm64_needs_force(macos_version, path,
                                                     display_output)
       IN commands_run' = commands_run \o force.ran
              \o <<Ran("run_command",
                       codesign_command(config, part, work, force.value))>>
    /\ signing_returned' = Result("sign_part", Returns(<<>>))
    /\ pc' = "done"
    /\ UNCHANGED <<macos_version, display_output, lipo_output, config, part>>
    /\ UNCHANGED recipe_vars
    /\ UNCHANGED <<resolver_vars, builds, try_builders_to_infer, build_statuses,
                   key_order, writes, responses, try_jobs_found, calls, log,
                   outcome, pool_vars, raw_build, classified>>

(* verify_part(paths, part) *)
verify_part ==
    /\ pc = "verify_part"
    /\ LET verify_options ==
               IF part.verify_options # <<>> /\ part.verify_options[1] # {}
               THEN to_list(part.verify_options[1]) ELSE <<>>
           part_path == join(work, part.path)
       IN commands_run' = commands_run
              \o <<Ran("run_command",
                       <<Word("codesign"), Word("--display"), Word("--verbose=5"),
                         Word("--requirements"), Word("-"), part_path>>),
                   Ran("run_command",
                       <<Word("codesign"), Word("--verify"), Word("--verbose=6")>>
                       \o verify_options \o <<part_path>>)>>
    /\ signing_returned' = Result("verify_part", Returns(<<>>))
    /\ pc' = "done"
    /\ UNCHANGED <<macos_version, display_output, lipo_output, config, part>>
    /\ UNCHANGED recipe_vars
    /\ UNCHANGED <<resolver_vars, builds, try_builders_to_infer, build_statuses,
                   key_order, writes, responses, try_jobs_found, calls, log,
                   outcome, pool_vars, raw_build, classified>>

(* validate_app(paths, config, part) *)
validate_app ==
    /\ pc = "validate_app"
    /\ LET app_path == join(work, part.path)
       IN commands_run' = commands_run
              \o <<Ran("run_command",
                       <<Word("codesign"), Word("--display"), Word("--requirements"),
                         Word("-"), Word("--verbose=5"), app_path>>)>>
              \o (IF config.run_spctl_assess
                  THEN <<Ran("run_command",
                             <<Word("spctl"), Word("--assess"), Word("-vv"),
                               app_path>>)>>
                  ELSE <<>>)
    /\ signing_returned' = Result("validate_app", Returns(<<>>))
    /\ pc' = "done"
    /\ UNCHANGED <<macos_version, display_output, lipo_output, config, part>>
    /\ UNCHANGED recipe_vars
    /\ UNCHANGED <<resolver_vars, builds, try_builders_to_infer, build_statuses,
                   key_order, writes, responses, try_jobs_found, calls, log,
                   outcome, pool_vars, raw_build, classified>>

(* A direct call of _linker_signed_arm64_needs_force(path). *)
linker_signed_arm64_needs_force ==
    /\ pc = "_linker_signed_arm64_needs_force"
    /\ LET force == _linker_signed_arm64_needs_force(
                        macos_version, join(work, part.path), display_output)
       IN /\ commands_run' = commands_run \o force.ran
          /\ signing_returned' =
                Result("_linker_signed_arm64_needs_force", Returns(<<force.value>>))
    /\ pc' = "done"
    /\ UNCHANGED <<macos_version, display_output, lipo_output, config, part>>
    /\ UNCHANGED recipe_vars
    /\ UNCHANGED <<resolver_vars, builds, try_builders_to_infer, build_statuses,
                   key_order, writes, responses, try_jobs_found, calls, log,
                   outcome, pool_vars, raw_build, classified>>

lipo_command(cfg) ==
    <<Word("lipo"), Word("-detailed_info"),
      <<work, "/", cfg.app_dir, "/", "Contents", "/", "MacOS", "/", cfg.app_product>>>>

(* A variant that reads the offsets before it looks for pinned geometry. *)
validate_app_geometry_reading_first ==
    /\ pc = "validate_app_geometry"
    /\ LET offsets == _binary_architectures_offsets(lipo_output)
       IN /\ commands_run' = Append(commands_run,
                                Ran("run_command_output", lipo_command(config)))
          /\ signing_returned' =
                Result("validate_app_geometry",
                       IF ~config.pinned THEN Returns(<<>>)
                       ELSE IF offsets.raised # None THEN offsets
                       ELSE IF config.main_executable_pinned_geometry # offsets.value
                       THEN Throws("InvalidAppGeometryException")
                       ELSE Returns(<<>>))
    /\ pc' = "done"
    /\ UNCHANGED <<macos_version, display_output, lipo_output, config, part>>
    /\ UNCHANGED recipe_vars
    /\ UNCHANGED <<resolver_vars, builds, try_builders_to_infer, build_statuses,
                   key_order, writes, responses, try_jobs_found, calls, log,
                   outcome, pool_vars, raw_build, classified>>

(* validate_app_geometry(paths, config, part) *)
validate_app_geometry ==
    /\ pc = "validate_app_geometry"
    /\ IF ~config.pinned
       THEN /\ signing_returned' = Result("validate_app_geometry", Returns(<<>>))
            /\ UNCHANGED commands_run
       ELSE LET offsets == _binary_architectures_offsets(lipo_output)
            IN /\ commands_run' = Append(commands_run,
                                     Ran("run_command_output", lipo_command(config)))
               /\ signing_returned' =
                     Result("validate_app_geometry",
                            IF offsets.raised # None THEN offsets
                            ELSE IF config.main_executable_pinned_geometry
                                        # offsets.value
                            THEN Throws("InvalidAppGeometryException")
                            ELSE Returns(<<>>))
    /\ pc' = "done"
    /\ UNCHANGED <<macos_version, display_output, lipo_output, config, part>>
    /\ UNCHANGED recipe_vars
    /\ UNCHANGED <<resolver_vars, builds, try_builders_to_infer, build_statuses,
                   key_order, writes, responses, try_jobs_found, calls, log,
                   outcome, pool_vars, raw_build, classified>>

(* No resolver call is running. *)
NoResolver ==
    /\ can_trigger_jobs = FALSE
    /\ issue_number = "1234"
    /\ bb_queue = <<>>
    /\ builds = <<>>
    /\ try_builders_to_infer = {}
    /\ build_statuses = {}
    /\ key_order = <<>>
    /\ writes = <<>>
    /\ responses = <<>>
    /\ try_jobs_found = {}
    /\ calls = <<>>
    /\ log = <<>>
    /\ outcome = "running"
    /\ raw_build = RawBuild("8001", 1, "linux-rel", "try", "SUCCESS", Absent, <<>>)
    /\ classified = <<>>
    /\ futures = <<>>
    /\ zipped = <<>>

(* One call of a signing.py function is about to run: sign_part or         *)
(* _linker_signed_arm64_needs_force on any macOS version and any output of *)
(* codesign --display, verify_part with any verify options, validate_app   *)
(* with and without the spctl assessment, or validate_app_geometry on any  *)
(* lipo output.  What a function does not read is held fixed.              *)
InitSigning ==
    /\ NoResolver
    /\ NoRecipe
    /\ commands_run = <<>>
    /\ signing_returned = <<>>
    /\ part \in Parts
    /\ config \in Configs \cup PinnedConfigs
    /\ \/ /\ pc = "sign_part"
          /\ macos_version \in MacosVersions
          /\ display_output \in DisplayOutputs
          /\ lipo_output = <<>>
          /\ ~config.pinned /\ ~config.run_spctl_assess
          /\ part.verify_options = <<>>
       \/ /\ pc = "verify_part"
          /\ macos_version = <<11, 0>>
          /\ display_output = [returncode |-> <<>>, stderr |-> <<>>]
          /\ lipo_output = <<>>
          /\ ~config.pinned /\ config.should_notarize /\ ~config.run_spctl_assess
          /\ part.sign_with_identifier /\ part.requirements_string = ""
          /\ part.options = {} /\ part.entitlements = None
       \/ /\ pc = "validate_app"
          /\ macos_version = <<11, 0>>
          /\ display_output = [returncode |-> <<>>, stderr |-> <<>>]
          /\ lipo_output = <<>>
          /\ ~config.pinned /\ config.should_notarize
          /\ part.sign_with_identifier /\ part.requirements_string = ""
          /\ part.options = {} /\ part.entitlements = None
          /\ part.verify_options = <<>>
       \/ /\ pc = "_linker_signed_arm64_needs_force"
          /\ macos_version \in MacosVersions
          /\ display_output \in DisplayOutputs
          /\ lipo_output = <<>>
          /\ ~config.pinned /\ config.should_notarize /\ ~config.run_spctl_assess
          /\ part.sign_with_identifier /\ part.requirements_string = ""
          /\ part.options = {} /\ part.entitlements = None
          /\ part.verify_options = <<>>
       \/ /\ pc = "validate_app_geometry"
          /\ macos_version = <<11, 0>>
          /\ display_output = [returncode |-> <<>>, stderr |-> <<>>]
          /\ lipo_output \in LipoOutputs
          /\ config.should_notarize /\ ~config.run_spctl_assess
          /\ part.sign_with_identifier /\ part.requirements_string = ""
          /\ part.options = {} /\ part.entitlements = None
          /\ part.verify_options = <<>>

NextSigning ==
    \/ sign_part
    \/ verify_part
    \/ validate_app
    \/ linker_signed_arm64_needs_force
    \/ validate_app_geometry

SpecSigning == InitSigning /\ [][NextSigning]_vars

(***************************************************************************)
(* tools/utr/recipe.py.  A string the code takes apart is the list of its  *)
(* characters; a dict of properties is the set of its keys; None is <<>>   *)
(* and a dict d is <<d>> where a value may be either.                      *)
(***************************************************************************)
RerunOption(prompt, properties) == [prompt |-> prompt, properties |-> properties]

(* The whitespace characters a string of the model can hold. *)
Whitespace == {" ", "\t", "\n", "\r", "\f"}

(* str.strip() *)
RECURSIVE strip(_)
strip(s) ==
    IF s = <<>> THEN s
    ELSE IF Head(s) \in Whitespace THEN strip(Tail(s))
    ELSE IF s[Len(s)] \in Whitespace THEN strip(SubSeq(s, 1, Len(s) - 1))
    ELSE s

UpperCase ==
    <<"A", "B", "C", "D", "E", "F", "G", "H", "I", "J", "K", "L", "M",
      "N", "O", "P", "Q", "R", "S", "T", "U", "V", "W", "X", "Y", "Z">>

LowerCase ==
    <<"a", "b", "c", "d", "e", "f", "g", "h", "i", "j", "k", "l", "m",
      "n", "o", "p", "q", "r", "s", "t", "u", "v", "w", "x", "y", "z">>

(* str.lower() of one character: every upper-case letter becomes its       *)
(* lower-case one, any other character stays.                              *)
lower_char(c) ==
    IF \E i \in 1..Len(UpperCase) : UpperCase[i] = c
    THEN LowerCase[CHOOSE i \in 1..Len(UpperCase) : UpperCase[i] = c]
    ELSE c

(* str.lower() *)
lower(s) == [i \in 1..Len(s) |-> lower_char(s[i])]

startswith(s, prefix) ==
    Len(prefix) <= Len(s) /\ SubSeq(s, 1, Len(prefix)) = prefix

(* The options of rerun_props from the i-th on whose prompt starts with resp. *)
RECURSIVE first_option(_, _, _)
first_option(rerun_props, i, resp) ==
    IF i > Len(rerun_props) THEN <<>>
    ELSE IF startswith(lower(rerun_props[i].prompt), resp)
    THEN <<rerun_props[i].properties>>
    ELSE first_option(rerun_props, i + 1, resp)

(* get_prompt_resp(rerun_props), `typed` being what input() returns. *)
get_prompt_resp(rerun_props, typed) ==
    first_option(rerun_props, 1, lower(strip(typed)))

(* The check of lines 295-296, made once the options are known not to be   *)
(* empty: a RerunOption is a tuple of its two fields.                      *)
bad_run_options(options) ==
    Len(options) < 1 \/ Len(<<options[1].prompt, options[1].properties>>) < 2

(* `not props_to_use`: None or an empty dict. *)
falsy(props) == props = <<>> \/ props[1] = {}

RERUN_CAP == 10

(* What a call of _run gives: an exception, or the exit code and the re-run *)
(* options the recipe wrote.                                               *)
RunResult(raised, code, options) ==
    [raised |-> raised, exit_code |-> code, rerun_prop_options |-> options]

Yes == <<"Y", "e", "s">>

No == <<"N", "o">>

RerunOptions ==
    {<<>>,
     <<RerunOption(Yes, {"skip_gclient_check"}), RerunOption(No, {})>>,
     <<RerunOption(No, {}), RerunOption(Yes, {"skip_gclient_check"})>>}

RunResults ==
    {RunResult("JSONDecodeError", 1, <<>>)}
    \cup {RunResult(None, code, options) : code \in {0, 1}, options \in RerunOptions}

Typed == {<<>>, <<"y">>, <<" ", "Y", "E", "S", " ">>, <<"n">>, <<"q">>}

(* range(n) with n itself included. *)
range_inclusive(n) == 0..n

(* range(n): the values the loop variable of `for _ in range(n)` takes. *)
range(n) == 0..(n - 1)

(* One pass of the loop of run_recipe, lines 265-300: _run is called with  *)
(* props_to_use, and the call returns or goes on to the next pass.         *)
run_recipe_pass ==
    /\ pc = "run_recipe"
    /\ iteration \in range(RERUN_CAP)
    /\ \E run \in RunResults, typed \in Typed :
          /\ iteration' = iteration + 1
          /\ invocations' = Append(invocations, props_to_use)
          /\ IF run.raised # None
             THEN /\ recipe_returned' = Throws(run.raised)
                  /\ pc' = "done"
                  /\ UNCHANGED <<exit_code, rerun_prop_options, props_to_use>>
             ELSE /\ exit_code' = run.exit_code
                  /\ rerun_prop_options' = run.rerun_prop_options
                  /\ IF run.rerun_prop_options = <<>>
                     THEN /\ recipe_returned' =
                               Returns(<<run.exit_code,
                                         IF run.exit_code # 0
                                         THEN "Build/test failure" ELSE None>>)
                          /\ pc' = "done"
                          /\ UNCHANGED props_to_use
                     ELSE IF skip_prompts /\ bad_run_options(run.rerun_prop_options)
                     THEN /\ recipe_returned' =
                               Returns(<<1, "Received bad run options from the recipe">>)
                          /\ pc' = "done"
                          /\ UNCHANGED props_to_use
                     ELSE LET chosen ==
                                 IF ~skip_prompts
                                 THEN get_prompt_resp(run.rerun_prop_options, typed)
                                 ELSE <<run.rerun_prop_options[1].properties>>
                          IN /\ props_to_use' = chosen
                             /\ IF falsy(chosen)
                                THEN /\ recipe_returned' =
                                          Returns(<<run.exit_code,
                                                    "User-aborted due to warning">>)
                                     /\ pc' = "done"
                                ELSE UNCHANGED <<recipe_returned, pc>>
    /\ UNCHANGED skip_prompts
    /\ UNCHANGED signing_vars
    /\ UNCHANGED <<resolver_vars, builds, try_builders_to_infer, build_statuses,
                   key_order, writes, responses, try_jobs_found, calls, log,
                   outcome, pool_vars, raw_build, classified>>

(* run_recipe, line 301: the loop has made all its passes. *)
run_recipe_exhausted ==
    /\ pc = "run_recipe"
    /\ iteration \notin range(RERUN_CAP)
    /\ recipe_returned' = Returns(<<1, "Exceeded too many recipe re-runs">>)
    /\ pc' = "done"
    /\ UNCHANGED <<skip_prompts, iteration, exit_code, rerun_prop_options,
                   props_to_use, invocations>>
    /\ UNCHANGED signing_vars
    /\ UNCHANGED <<resolver_vars, builds, try_builders_to_infer, build_statuses,
                   key_order, writes, responses, try_jobs_found, calls, log,
                   outcome, pool_vars, raw_build, classified>>

(* A LegacyRunner whose run_recipe has just been called. *)
InitRecipe ==
    /\ NoResolver
    /\ NoSigning
    /\ pc = "run_recipe"
    /\ skip_prompts \in BOOLEAN
    /\ iteration = 0
    /\ exit_code = 0
    /\ rerun_prop_options = <<>>
    /\ props_to_use = <<>>
    /\ invocations = <<>>
    /\ recipe_returned = <<>>

NextRecipe == run_recipe_pass \/ run_recipe_exhausted

(* The recipe process ends and the user answers the prompt: a pass that is *)
(* begun is finished.                                                      *)
SpecRecipe == InitRecipe /\ [][NextRecipe]_vars /\ WF_vars(NextRecipe)

(***************************************************************************)
(* Properties of the classifier, under SpecClassify.                       *)
(***************************************************************************)
INFRA_FAILURE == [status |-> "COMPLETED", result |-> "INFRA_FAILURE"]

InfraExitCodes == {"130", "255"}

HasInterruptedShard(summary) ==
    /\ summary.kind = "dict"
    /\ summary.has_shards
    /\ \E k \in 1..Len(summary.shards) : summary.shards[k].exit_code \in InfraExitCodes

MatchingNames ==
    {"blink_web_tests (with patch)", "blink_wpt_tests (with patch) on Mac"}

(* The record has a matching step whose fetched summary has an interrupted shard. *)
InterruptedStep(raw) ==
    \E k \in 1..Len(raw.steps) :
        /\ raw.steps[k].name \in MatchingNames
        /\ HasInterruptedShard(_fetch_swarming_summary(raw.steps[k]).summary)

FailureTypeDecides(raw) == raw.failure_type \notin {Absent, None, "TEST_FAILURE"}

(* C1: a record whose output.properties.failure_type is present and is
   neither null nor "TEST_FAILURE" is classified INFRA_FAILURE, whatever its
   status, steps and logs are. *)
C1_FailureTypeGivesInfraFailure ==
    \A i \in 1..Len(classified) :
        FailureTypeDecides(raw_build) =>
            /\ ~classified[i].raised
            /\ classified[i].status = INFRA_FAILURE

C1_Witness ==
    /\ Len(classified) >= 1
    /\ raw_build.failure_type = "COMPILE_FAILURE"
    /\ raw_build.status = "SUCCESS"
    /\ Len(raw_build.steps) = 2
    /\ ~InterruptedStep(raw_build)
    /\ classified[1].status = INFRA_FAILURE

(* C2: a record with a step whose name matches the web-test pattern and
   whose fetched chromium_swarming.summary has a shard with an exit code of
   the infrastructure-error set is classified INFRA_FAILURE, whatever status
   Buildbucket reported. *)
C2_InterruptedShardGivesInfraFailure ==
    \A i \in 1..Len(classified) :
        InterruptedStep(raw_build) =>
            /\ ~classified[i].raised
            /\ classified[i].status = INFRA_FAILURE

C2_Witness ==
    /\ Len(classified) >= 1
    /\ raw_build.failure_type = Absent
    /\ raw_build.status = "SUCCESS"
    /\ Len(raw_build.steps) = 2
    /\ ~HasInterruptedShard(_fetch_swarming_summary(raw_build.steps[1]).summary)
    /\ raw_build.steps[2].logs =
           <<Log(log_name, Summary(<<Shard("0"), Shard("130")>>))>>
    /\ classified[1].status = INFRA_FAILURE

(* C3: a record whose failure_type is absent, null or "TEST_FAILURE" and
   that has no matching step with an interrupted shard is classified as the
   status Buildbucket reported: SCHEDULED and STARTED as themselves, any
   other status as COMPLETED with that status as the result. *)
C3_OtherwiseReportedStatus ==
    \A i \in 1..Len(classified) :
        (~FailureTypeDecides(raw_build) /\ ~InterruptedStep(raw_build)) =>
            /\ ~classified[i].raised
            /\ classified[i].status =
                 IF raw_build.status \in {"SCHEDULED", "STARTED"}
                 THEN [status |-> raw_build.status, result |-> None]
                 ELSE [status |-> "COMPLETED", result |-> raw_build.status]

C3_Witness ==
    /\ Len(classified) >= 1
    /\ raw_build.failure_type = "TEST_FAILURE"
    /\ raw_build.status = "FAILURE"
    /\ Len(raw_build.steps) = 2
    /\ raw_build.steps[1].name = "blink_web_tests (without patch)"
    /\ raw_build.steps[2].name = "blink_web_tests (with patch)"
    /\ raw_build.steps[2].logs = <<Log(log_name, Summary(<<Shard("1")>>))>>
    /\ classified[1].status = [status |-> "COMPLETED", result |-> "FAILURE"]

(* The record without the content its logs' viewUrls serve. *)
AsReturned(raw) ==
    [raw EXCEPT !.steps =
        [k \in 1..Len(raw.steps) |->
            [name |-> raw.steps[k].name,
             logs |-> [l \in 1..Len(raw.steps[k].logs) |-> raw.steps[k].logs[l].name]]]]

SummaryLogs(step) == {l \in 1..Len(step.logs) : step.logs[l].name = log_name}

HasReturned(call) == call.at = <<>>

(* The summary content a call fetched: what its GETs got for the logs     *)
(* named chromium_swarming.summary of the steps whose name matches.       *)
SummaryContent(call) ==
    LET summaries ==
            SelectSeq(call.fetched,
                      LAMBDA f :
                          /\ call.raw_build.steps[f.step].name \in MatchingNames
                          /\ f.log \in SummaryLogs(call.raw_build.steps[f.step]))
    IN [g \in 1..Len(summaries) |-> summaries[g].content]

(* C10: classification is idempotent: two classifications of the same
   record with the same fetched summary content give the same TryJobStatus,
   whatever else the web serves for the record's logs and whenever it
   comes to serve it, and a classification changes neither the record nor
   the resolver's state. *)
C10_ClassificationIdempotent ==
    /\ [](\A i, j \in 1..Len(classified) :
            (/\ HasReturned(classified[i]) /\ HasReturned(classified[j])
             /\ AsReturned(classified[i].raw_build) = AsReturned(classified[j].raw_build)
             /\ SummaryContent(classified[i]) = SummaryContent(classified[j]))
            => /\ classified[i].status = classified[j].status
               /\ classified[i].raised = classified[j].raised)
    /\ [][classified' # classified =>
            UNCHANGED <<raw_build, resolver_vars, call_vars>>]_vars

C10_Witness ==
    /\ Len(classified) = 2
    /\ HasReturned(classified[1]) /\ HasReturned(classified[2])
    /\ raw_build # classified[1].raw_build
    /\ raw_build # classified[2].raw_build
    /\ SummaryContent(classified[1]) = SummaryContent(classified[2])
    /\ Len(SummaryContent(classified[1])) = 2
    /\ classified[1].status = INFRA_FAILURE
    /\ classified[2].status = INFRA_FAILURE

(* Log l of the step is a summary log whose GET fails with `exception`. *)
FetchFails(step, l, exception) ==
    step.logs[l].name = log_name /\ step.logs[l].response.kind = exception

HasFailingFetch(raw, exception) ==
    \E k \in 1..Len(raw.steps) :
        /\ raw.steps[k].name \in MatchingNames
        /\ \E l \in 1..Len(raw.steps[k].logs) :
              FetchFails(raw.steps[k], l, exception)

(* The step is interrupted by what is left when the summary logs whose GET
   failed are taken as absent: the first summary log that decodes has an
   interrupted shard. *)
InterruptedByTheRest(step) ==
    \E l \in 1..Len(step.logs) :
        /\ step.logs[l].name = log_name
        /\ HasInterruptedShard(step.logs[l].response)
        /\ \A e \in 1..(l - 1) :
              step.logs[e].name = log_name => step.logs[e].response.kind # "dict"

StatusFromTheRest(raw) ==
    IF \/ FailureTypeDecides(raw)
       \/ \E k \in 1..Len(raw.steps) :
             /\ raw.steps[k].name \in MatchingNames
             /\ InterruptedByTheRest(raw.steps[k])
    THEN INFRA_FAILURE
    ELSE IF raw.status \in {"SCHEDULED", "STARTED"}
    THEN [status |-> raw.status, result |-> None]
    ELSE [status |-> "COMPLETED", result |-> raw.status]

(* C16: a RequestException raised while a step's shard summary is fetched
   never makes the classification raise; the failed summary is taken as
   absent, so a step with no other summary counts as not interrupted, and
   the classification is INFRA_FAILURE or the reported status as the rest
   of the record (failure_type, the other steps) decides. *)
C16_TransportErrorSwallowed ==
    \A i \in 1..Len(classified) :
        HasFailingFetch(raw_build, "RequestException") =>
            /\ ~classified[i].raised
            /\ classified[i].status = StatusFromTheRest(raw_build)

C16_Witness ==
    /\ Len(classified) >= 1
    /\ raw_build.failure_type = Absent
    /\ raw_build.status = "SUCCESS"
    /\ Len(raw_build.steps) = 2
    /\ raw_build.steps[1] =
           Step("blink_web_tests (with patch)",
                <<Log(log_name, Raises("RequestException"))>>)
    /\ raw_build.steps[2].name = "blink_wpt_tests (with patch) on Mac"
    /\ classified[1].status = INFRA_FAILURE

(* The number of GETs a classification issued for step k of the record. *)
FetchesFor(c, k) == Cardinality({j \in 1..Len(c.fetches) : c.fetches[j] = k})

(* The names of the step's logs differ, as in every record Buildbucket
   returns. *)
UniqueLogNames(step) ==
    \A a, b \in 1..Len(step.logs) : step.logs[a].name = step.logs[b].name => a = b

(* C22: while classifying one record the classifier issues at most one
   summary fetch for each step whose name matches the test-step pattern
   (a step as Buildbucket returns it, the names of its logs unique) and
   none for any other step; when failure_type decides INFRA_FAILURE it
   issues no fetch at all. *)
C22_AtMostOneFetchPerMatchingStep ==
    \A i \in 1..Len(classified) :
        /\ FailureTypeDecides(raw_build) => classified[i].fetches = <<>>
        /\ \A k \in 1..Len(raw_build.steps) :
              IF raw_build.steps[k].name \in MatchingNames
              THEN UniqueLogNames(raw_build.steps[k])
                       => FetchesFor(classified[i], k) <= 1
              ELSE FetchesFor(classified[i], k) = 0

C22_Witness ==
    /\ Len(classified) >= 1
    /\ raw_build.failure_type = "TEST_FAILURE"
    /\ Len(raw_build.steps) = 2
    /\ raw_build.steps[1] =
           Step("compile (with patch)", <<Log(log_name, Summary(<<Shard("130")>>))>>)
    /\ raw_build.steps[2].name = "blink_web_tests (with patch)"
    /\ Cardinality(SummaryLogs(raw_build.steps[2])) = 1
    /\ Len(raw_build.steps[2].logs) = 2
    /\ classified[1].fetches = <<2>>
    /\ classified[1].status # INFRA_FAILURE

(***************************************************************************)
(* Properties of resolve_builds, under Spec.                               *)
(***************************************************************************)
CallsOf(op) == {i \in 1..Len(calls) : calls[i].op = op}

Called(op) == CallsOf(op) # {}

Numbered == {i \in 1..Len(builds) : builds[i].build_number # 0}

TryUnnumbered ==
    {i \in 1..Len(builds) : builds[i].build_number = 0 /\ builds[i].bucket = "try"}

FoundBuilders == {it.build.builder_name : it \in try_jobs_found}

WithoutBuild == try_builders_to_infer \ FoundBuilders

(* The call got past the batch: build_statuses is the map it assembled. *)
Assembled ==
    \/ pc \in {"report", "pending_check"}
    \/ pc = "done" /\ outcome \in {"returned", "UnresolvedBuildException"}
                   /\ Called("execute_batch")

(* C4, as claimed: the builder of a request with a build number is never in
   the set passed to fetch_or_trigger_try_jobs, whatever else is requested. *)
C4_Original ==
    \A i \in Numbered : \A c \in CallsOf("fetch_or_trigger_try_jobs") :
        builds[i].builder_name \notin calls[c].builders

(* C4, amended: the set passed to fetch_or_trigger_try_jobs is exactly the
   set of builder names of the try requests without a build number, so the
   builder of a request with a build number is in it only if another request
   of the call names that builder in the try bucket without a number; no
   inference is made when no request is of that kind. *)
C4_NumberedNotInferred ==
    /\ \A c \in CallsOf("fetch_or_trigger_try_jobs") :
          calls[c].builders = {builds[k].builder_name : k \in TryUnnumbered}
    /\ TryUnnumbered = {} => ~Called("fetch_or_trigger_try_jobs")
    /\ (pc \notin {"partition", "infer"} /\ TryUnnumbered # {})
          => Called("fetch_or_trigger_try_jobs")

C4_Witness ==
    /\ Called("fetch_or_trigger_try_jobs")
    /\ \E i \in Numbered : \E k \in TryUnnumbered :
          /\ builds[i].bucket = "try"
          /\ builds[i].builder_name # builds[k].builder_name
          /\ builds[i].builder_name
                 \notin calls[CHOOSE c \in CallsOf("fetch_or_trigger_try_jobs") : TRUE].builders

(* C5: with try builders without a number, triggering disabled and no
   existing build for them on the revision, resolve_builds raises
   UnresolvedBuildException and triggers nothing. *)
C5_NoBuildsNoTriggerRaises ==
    (/\ ~can_trigger_jobs
     /\ Called("latest_try_jobs")
     /\ try_jobs_found = {})
    => /\ pc = "done"
       /\ outcome = "UnresolvedBuildException"
       /\ ~Called("trigger_try_jobs")
       /\ ~Called("execute_batch")

C5_Witness ==
    /\ ~can_trigger_jobs
    /\ Called("latest_try_jobs")
    /\ try_jobs_found = {}
    /\ Cardinality(try_builders_to_infer) = 2
    /\ outcome = "UnresolvedBuildException"

(* C6: with triggering enabled and some of the inferred try builders without
   an existing build, the statuses give TRIGGERED to exactly the builders
   without an existing build, and every existing build keeps its entry with
   its own status, never TRIGGERED or MISSING: the status latest_try_jobs
   reported until the batch is merged, and afterwards that status or the
   INFRA_FAILURE the classifier gave the build's own record. *)
C6_TriggeredExactlyTheMissing ==
    (/\ can_trigger_jobs
     /\ Called("latest_try_jobs")
     /\ WithoutBuild # {})
    => /\ {it.build.builder_name : it \in {x \in build_statuses : x.status = TRIGGERED}}
            = WithoutBuild
       /\ \A b \in WithoutBuild :
             [build |-> BuildOf(b), status |-> TRIGGERED] \in build_statuses
       /\ \A f \in try_jobs_found : \E it \in build_statuses :
             /\ it.build = f.build
             /\ it.status \in {f.status, INFRA_FAILURE}
             /\ it.status.status \notin {"TRIGGERED", "MISSING"}
             /\ (pc = "execute" => it.status = f.status)

C6_Witness ==
    /\ can_trigger_jobs
    /\ pc = "done"
    /\ Cardinality(try_jobs_found) = 1
    /\ Cardinality(WithoutBuild) = 1
    /\ \E it \in build_statuses : it.status = TRIGGERED
    /\ \E it \in build_statuses : it.status = INFRA_FAILURE

(* C7: in one resolve_builds call trigger_try_jobs is called at most once;
   it is called exactly when triggering is allowed and latest_try_jobs
   returned no build for at least one inferred try builder, and its argument
   is exactly the set of those builders. *)
C7_OneTriggerForTheMissing ==
    /\ Cardinality(CallsOf("trigger_try_jobs")) <= 1
    /\ \A c \in CallsOf("trigger_try_jobs") :
          /\ can_trigger_jobs
          /\ calls[c].builders = WithoutBuild
          /\ calls[c].builders # {}
          /\ calls[c].builders \cap FoundBuilders = {}
    /\ (can_trigger_jobs /\ Called("latest_try_jobs") /\ WithoutBuild # {})
          => Called("trigger_try_jobs")

C7_Witness ==
    /\ pc = "done"
    /\ Called("trigger_try_jobs")
    /\ try_jobs_found # {}
    /\ Cardinality(try_builders_to_infer) = 2

(* C8: when the map a resolve_builds call assembled holds a TRIGGERED
   status the call raises UnresolvedBuildException, and when it holds none
   (inference and the batch not having failed) the call returns the map. *)
C8_PendingRaisesElseReturns ==
    (pc = "done" /\ Assembled)
    => /\ (TRIGGERED \in Values(build_statuses))
             => outcome = "UnresolvedBuildException"
       /\ (TRIGGERED \notin Values(build_statuses)) => outcome = "returned"

C8_Witness ==
    /\ pc = "done"
    /\ Assembled
    /\ TRIGGERED \in Values(build_statuses)
    /\ Cardinality(build_statuses) >= 2
    /\ outcome = "UnresolvedBuildException"

HasTable ==
    /\ \E i \in 1..Len(log) : log[i].text = "BUILDER NUMBER STATUS BUCKET"
    /\ \E i \in 1..Len(log) : log[i].text = "row" /\ log[i].level = "info"

AllCompleted == \A it \in build_statuses : it.status.status = "COMPLETED"

(* C9, as claimed: whenever a resolve_builds call assembles a non-empty map
   the table of builds is logged. *)
C9_Original ==
    (pc \in {"pending_check", "done"} /\ Assembled /\ build_statuses # {})
    => HasTable

(* C9, amended: whenever a resolve_builds call assembles a non-empty map,
   log_builds runs before the pending check; it logs a table unless every
   build of the map is COMPLETED, in which case it logs only "All builds
   finished."; when the call raises for TRIGGERED builds the table, with a
   row for each triggered build, is in the log before the exception. *)
C9_SummaryLoggedBeforeRaise ==
    (pc \in {"pending_check", "done"} /\ Assembled /\ build_statuses # {})
    => /\ Called("log_builds")
       /\ AllCompleted =>
             /\ \E i \in 1..Len(log) : log[i].text = "All builds finished."
             /\ ~HasTable
       /\ ~AllCompleted => HasTable
       /\ \A it \in build_statuses : it.status = TRIGGERED =>
             \E i \in 1..Len(log) :
                 /\ log[i].text = "row"
                 /\ log[i].builder = it.build.builder_name
                 /\ log[i].shown = "TRIGGERED"

C9_Witness ==
    /\ pc = "pending_check"
    /\ outcome = "running"
    /\ TRIGGERED \in Values(build_statuses)
    /\ HasTable

CIUnnumbered ==
    {i \in 1..Len(builds) : builds[i].build_number = 0 /\ builds[i].bucket # "try"}

(* The map has an entry for request i: for its builder, bucket and number
   when it has a number, for its builder and bucket otherwise. *)
HasEntry(i) ==
    \E it \in build_statuses :
        /\ it.build.builder_name = builds[i].builder_name
        /\ it.build.bucket = builds[i].bucket
        /\ builds[i].build_number # 0
              => it.build.build_number = builds[i].build_number

Returned == pc = "done" /\ outcome = "returned"

(* C11, as claimed: the map resolve_builds returns has an entry for every
   requested build, with or without a number, try or CI, whatever the
   remote service answers. *)
C11_Original == Returned => \A i \in 1..Len(builds) : HasEntry(i)

(* C11, amended: the map resolve_builds returns has an entry for every
   request with a build number and for every try request without one; a CI
   request without a number has an entry exactly when the batch returned a
   record of its builder and bucket, so none when it is the only request of
   that builder and the search finds no failing build. *)
C11_EntryPerResolvedRequest ==
    Returned =>
        /\ \A i \in Numbered \cup TryUnnumbered : HasEntry(i)
        /\ \A i \in CIUnnumbered :
              HasEntry(i) <=>
                  \E k \in 1..Len(responses) :
                      /\ responses[k].builder = builds[i].builder_name
                      /\ responses[k].bucket = builds[i].bucket

C11_Witness ==
    /\ Returned
    /\ Len(builds) = 2
    /\ \E i \in CIUnnumbered : ~HasEntry(i)
    /\ \E i \in Numbered : builds[i].bucket = "ci" /\ HasEntry(i)

WrittenTwice(build) ==
    \E i, j \in 1..Len(writes) :
        i # j /\ writes[i].build = build /\ writes[j].build = build

(* C12, as claimed: within one resolve_builds call no key of the map has a
   value stored twice, first the status inference reported and later the
   classified status of the re-fetched record. *)
C12_Original ==
    \A i, j \in 1..Len(writes) : i # j => writes[i].build # writes[j].build

(* C12, amended: each key is stored at most once by the inference update
   (line 124, the status latest_try_jobs reported or a placeholder, not
   classified) and at most once by the batch update (lines 132-134, the
   classification of a returned record of that key), the inference first;
   once the batch is merged every numbered build that inference found
   COMPLETED has been stored by both, and the map holds for every key the
   value stored last. *)
C12_InferredThenClassified ==
    /\ \A i, j \in 1..Len(writes) :
          (i < j /\ writes[i].build = writes[j].build)
              => writes[i].by = "inference" /\ writes[j].by = "batch"
    /\ \A i \in 1..Len(writes) :
          /\ writes[i].by = "inference"
                => writes[i].status \in
                       {x.status : x \in try_jobs_found} \cup {TRIGGERED, MISSING}
          /\ writes[i].by = "batch"
                => \E k \in 1..Len(responses) :
                      /\ key_of(responses[k]) = writes[i].build
                      /\ _status_if_interrupted(responses[k]).status
                             = writes[i].status
    /\ Assembled =>
          \A f \in try_jobs_found :
              (f.build.build_number # 0 /\ f.status.status = "COMPLETED")
                  => WrittenTwice(f.build)
    /\ Keys(build_statuses) = {writes[i].build : i \in 1..Len(writes)}
    /\ \A it \in build_statuses :
          \E i \in 1..Len(writes) :
              /\ writes[i] = Write(it.build, it.status, writes[i].by)
              /\ \A j \in (i + 1)..Len(writes) : writes[j].build # it.build

C12_Witness ==
    /\ Returned
    /\ \E i, j \in 1..Len(writes) :
          /\ i < j
          /\ writes[i].build = writes[j].build
          /\ writes[i].status = from_bb_status("FAILURE")
          /\ writes[j].status = INFRA_FAILURE

NullUnlessCompleted(status) == status.status # "COMPLETED" => status.result = None

(* C13: every TryJobStatus the resolver puts into a status map, be it a
   classification, a status inference reported or a TRIGGERED or MISSING
   placeholder, has a null result unless its status code is COMPLETED. *)
C13_ResultOnlyWhenCompleted ==
    /\ \A it \in build_statuses : NullUnlessCompleted(it.status)
    /\ \A i \in 1..Len(writes) : NullUnlessCompleted(writes[i].status)

C13_Witness ==
    /\ pc = "done"
    /\ \E it \in build_statuses : it.status = TRIGGERED
    /\ \E it \in build_statuses : it.status = INFRA_FAILURE
    /\ \E i \in 1..Len(writes) :
          writes[i].by = "inference" /\ writes[i].status = from_bb_status("FAILURE")

(* fetch_or_trigger_try_jobs was called and returned a map. *)
InferenceReturned ==
    /\ Called("fetch_or_trigger_try_jobs")
    /\ ~(outcome = "UnresolvedBuildException" /\ ~Called("execute_batch"))

Inferred == {writes[i] : i \in {k \in 1..Len(writes) : writes[k].by = "inference"}}

(* C14: when fetch_or_trigger_try_jobs returns a map for a set of builder
   names, the builder names of the map's keys are exactly that set: every
   builder asked for has one entry, a build latest_try_jobs found or a
   TRIGGERED or MISSING placeholder, and no other builder has one. *)
C14_CoversExactlyTheBuilders ==
    InferenceReturned =>
        /\ {w.build.builder_name : w \in Inferred} = try_builders_to_infer
        /\ \A v, w \in Inferred : v.build.builder_name = w.build.builder_name => v = w
        /\ \A w \in Inferred :
              \/ Item(w.build, w.status) \in try_jobs_found
              \/ /\ w.build = BuildOf(w.build.builder_name)
                 /\ w.status \in {TRIGGERED, MISSING}
                 /\ w.build.builder_name \notin FoundBuilders
        /\ pc = "execute" =>
              build_statuses = {Item(w.build, w.status) : w \in Inferred}

C14_Witness ==
    /\ pc = "execute"
    /\ InferenceReturned
    /\ ~can_trigger_jobs
    /\ Cardinality(try_builders_to_infer) = 2
    /\ Cardinality(try_jobs_found) = 1
    /\ MISSING \in Values(build_statuses)

(* C15: when get_issue_number gives no issue number (the string 'None'),
   fetch_or_trigger_try_jobs raises UnresolvedBuildException before
   latest_try_jobs or trigger_try_jobs is called, and the resolve_builds
   call that needed the inference ends with that exception: no batch is
   executed, nothing is logged and no map is returned. *)
C15_NoIssueNumberRaises ==
    (issue_number = "None" /\ TryUnnumbered # {})
    => /\ ~Called("latest_try_jobs")
       /\ ~Called("trigger_try_jobs")
       /\ ~Called("execute_batch")
       /\ ~Called("log_builds")
       /\ outcome \in {"running", "UnresolvedBuildException"}
       /\ Called("fetch_or_trigger_try_jobs") =>
             /\ pc = "done"
             /\ outcome = "UnresolvedBuildException"
             /\ Called("get_issue_number")
             /\ writes = <<>>
       /\ pc = "done" => Called("fetch_or_trigger_try_jobs")

C15_Witness ==
    /\ issue_number = "None"
    /\ can_trigger_jobs
    /\ Numbered # {}
    /\ TryUnnumbered # {}
    /\ pc = "done"
    /\ outcome = "UnresolvedBuildException"

(* Record k of the batch is the last one of its key. *)
LastOfItsKey(k) ==
    \A j \in (k + 1)..Len(responses) : key_of(responses[j]) # key_of(responses[k])

Undecodable(raw) ==
    /\ HasFailingFetch(raw, "JSONDecodeError")
    /\ ~FailureTypeDecides(raw)
    /\ ~InterruptedStep(raw)

(* C17: a shard summary that does not decode (.json() raises
   JSONDecodeError) is swallowed: classifying the record does not raise,
   and resolve_builds goes on to assemble its map, in which the record's
   build has the status Buildbucket reported for it. *)
C17_UndecodableSummarySwallowed ==
    \A k \in 1..Len(responses) :
        Undecodable(responses[k]) =>
            /\ ~_status_if_interrupted(responses[k]).raised
            /\ outcome # "Exception"
            /\ Assembled
            /\ LastOfItsKey(k) =>
                  Item(key_of(responses[k]), from_bb_status(responses[k].status))
                      \in build_statuses

C17_Witness ==
    /\ Returned
    /\ Len(responses) = 2
    /\ Undecodable(responses[1])
    /\ responses[1].status = "FAILURE"
    /\ ~Undecodable(responses[2])
    /\ Item(key_of(responses[1]), from_bb_status("FAILURE")) \in build_statuses
    /\ Item(key_of(responses[2]), INFRA_FAILURE) \in build_statuses

(* C18: with an io_pool, whatever the order in which the classifications
   finish, every record's key is paired with the classification of that
   same record, and _build_statuses_from_responses returns the map it
   returns without a pool, where the records are classified one by one. *)
C18_PoolSameAsSequential ==
    /\ \A k \in 1..Len(zipped) :
          zipped[k] = Item(key_of(responses[k]),
                           _status_if_interrupted(responses[k]).status)
    /\ (pc = "done" /\ outcome = "returned")
          => build_statuses = _build_statuses_from_responses(responses).statuses

(* Two records of one build with different classifications, the second
   classified first. *)
C18_Witness ==
    /\ pc = "done"
    /\ outcome = "returned"
    /\ Len(responses) = 2
    /\ key_of(responses[1]) = key_of(responses[2])
    /\ _status_if_interrupted(responses[1]).status
          # _status_if_interrupted(responses[2]).status
    /\ futures[1].task = 2

(* C19, as claimed: when a resolve_builds call has ended, by returning or
   by raising, no request it queued is still pending in the Buildbucket
   client: all of them were executed by the call's execute_batch. *)
C19_Original == pc = "done" => bb_queue = <<>>

(* C20: a RequestException raised by execute_batch ends resolve_builds
   with that exception: the batch is not executed again, nothing is called
   after the failed execute_batch, log_builds does not run and logs
   nothing, and no map is returned, whatever inference had found. *)
C20_BatchErrorPropagates ==
    /\ Cardinality(CallsOf("execute_batch")) <= 1
    /\ outcome = "RequestException" =>
          /\ pc = "done"
          /\ Called("execute_batch")
          /\ calls[Len(calls)].op = "execute_batch"
          /\ ~Called("log_builds")
          /\ \A i \in 1..Len(log) : log[i] = Fetching(try_builders_to_infer)
          /\ responses = <<>>
          /\ \A i \in 1..Len(writes) : writes[i].by = "inference"

C20_Witness ==
    /\ pc = "done"
    /\ outcome = "RequestException"
    /\ Cardinality(try_jobs_found) = 1
    /\ MISSING \in Values(build_statuses)
    /\ Len(log) = 1

(***************************************************************************)
(* Properties of the logged tables.                                        *)
(***************************************************************************)
(* Two log records that are neighbouring rows of one table or list. *)
NeighbouringRows(i) ==
    /\ i + 1 <= Len(log)
    /\ log[i].text = "row"
    /\ log[i + 1].text = "row"
    /\ log[i].level = log[i + 1].level

NameOrder(i) == NameRank(log[i].builder) <= NameRank(log[i + 1].builder)

SameBuilder(i) == log[i].builder = log[i + 1].builder

(* C21, as claimed: the rows of every logged build table are ordered by
   builder name, then by build number ascending, and a build without a
   number comes after all numbered builds of the same builder. *)
C21_Original ==
    \A i \in 1..Len(log) :
        NeighbouringRows(i) =>
            /\ NameOrder(i)
            /\ SameBuilder(i) =>
                  \/ log[i + 1].number = 0
                  \/ (log[i].number # 0 /\ log[i].number <= log[i + 1].number)

(* C21, amended: the rows of every logged build table are ordered by
   builder name, then by build number ascending, and a build without a
   number counts as number 0: it comes before all numbered builds of the
   same builder. *)
C21_RowsSortedUnnumberedFirst ==
    \A i \in 1..Len(log) :
        NeighbouringRows(i) =>
            /\ NameOrder(i)
            /\ SameBuilder(i) => log[i].number <= log[i + 1].number

C21_Witness ==
    /\ pc = "done"
    /\ \E i \in 1..Len(log) :
          /\ NeighbouringRows(i)
          /\ log[i].level = "info"
          /\ SameBuilder(i)
          /\ log[i].number = 0
          /\ log[i].shown = "TRIGGERED"
          /\ log[i + 1].number > 0

(***************************************************************************)
(* Further properties of resolve_builds, under Spec.                       *)
(***************************************************************************)
(* The pending get-by-id requests for the build. *)
GetRequestsFor(build) ==
    {i \in 1..Len(bb_queue) :
        bb_queue[i].op = "get_build" /\ bb_queue[i].build = build}

(* C25: when the inference of a resolve_builds call has returned and the
   batch is about to be executed, a get-by-id request with the full field
   mask is pending for every inferred try build that is COMPLETED and has a
   build number, and none is pending for an inferred build that is
   SCHEDULED, STARTED, TRIGGERED or MISSING; the batch has not been executed
   yet, and it is executed at most once in the call. *)
C25_CompletedInferredRerequested ==
    /\ Cardinality(CallsOf("execute_batch")) <= 1
    /\ pc = "execute" =>
          /\ ~Called("execute_batch")
          /\ \A w \in Inferred :
                /\ (w.status.status = "COMPLETED" /\ w.build.build_number # 0)
                      => \E i \in GetRequestsFor(w.build) :
                            bb_queue[i].build_fields = _build_fields
                /\ w.status.status \in {"SCHEDULED", "STARTED", "TRIGGERED", "MISSING"}
                      => GetRequestsFor(w.build) = {}

C25_Witness ==
    /\ pc = "execute"
    /\ \E v, w \in Inferred :
          /\ v.status.status = "COMPLETED"
          /\ v.build.build_number # 0
          /\ GetRequestsFor(v.build) # {}
          /\ w.status.status = "STARTED"
          /\ w.build.build_number # 0
          /\ GetRequestsFor(w.build) = {}

(* Triggering is disallowed, latest_try_jobs found a build for some of the
   builders asked for and none for others. *)
SomeFoundSomeNot ==
    /\ ~can_trigger_jobs
    /\ Called("latest_try_jobs")
    /\ try_jobs_found # {}
    /\ WithoutBuild # {}

BatchFailed ==
    /\ outcome \in {"RequestException", "Exception"}
    /\ calls[Len(calls)].op = "execute_batch"

(* C26: with triggering disallowed, when some of the try builders asked for
   have an existing build and others have none, fetch_or_trigger_try_jobs
   does not raise: every builder without a build is stored as MISSING, no
   trigger call is made, the call goes on to the batch and, unless the batch
   itself fails, resolve_builds returns the map, the MISSING entries in it. *)
C26_PartialResultsNoTriggerReturns ==
    SomeFoundSomeNot =>
        /\ outcome # "UnresolvedBuildException"
        /\ ~Called("trigger_try_jobs")
        /\ \A b \in WithoutBuild :
              Write(BuildOf(b), MISSING, "inference") \in Inferred
        /\ pc = "done" =>
              \/ BatchFailed
              \/ /\ outcome = "returned"
                 /\ \A b \in WithoutBuild :
                       Item(BuildOf(b), MISSING) \in build_statuses

C26_Witness ==
    /\ SomeFoundSomeNot
    /\ pc = "done"
    /\ outcome = "returned"
    /\ MISSING \in Values(build_statuses)
    /\ \E it \in try_jobs_found : it \in build_statuses

(* C27: a resolve_builds call in which every requested build has a build
   number or a bucket other than try never reads the issue number, never
   asks for the latest try builds and never triggers a build; it does not
   end with UnresolvedBuildException, whether an issue number is set or not. *)
C27_NoInferenceWithoutUnnumberedTry ==
    TryUnnumbered = {} =>
        /\ ~Called("fetch_or_trigger_try_jobs")
        /\ ~Called("get_issue_number")
        /\ ~Called("latest_try_jobs")
        /\ ~Called("trigger_try_jobs")
        /\ pc # "infer"
        /\ outcome # "UnresolvedBuildException"

C27_Witness ==
    /\ pc = "done"
    /\ outcome = "returned"
    /\ issue_number = "None"
    /\ can_trigger_jobs
    /\ TryUnnumbered = {}
    /\ \E i \in Numbered : builds[i].bucket = "try"
    /\ CIUnnumbered # {}
    /\ Called("execute_batch")

PlaceholderOf(b) ==
    {w.status.status : w \in {v \in Inferred : v.build = BuildOf(b)}}

(* C28: the map of one fetch_or_trigger_try_jobs call never holds both a
   TRIGGERED and a MISSING status: every builder without an existing build
   gets TRIGGERED when triggering is allowed and MISSING when it is not; and
   a map that resolve_builds returns holds no TRIGGERED status. *)
C28_OnePlaceholderStatus ==
    /\ InferenceReturned =>
          /\ ~(\E v, w \in Inferred :
                  v.status.status = "TRIGGERED" /\ w.status.status = "MISSING")
          /\ \A b \in WithoutBuild :
                PlaceholderOf(b) =
                    {IF can_trigger_jobs THEN "TRIGGERED" ELSE "MISSING"}
    /\ (pc = "done" /\ outcome = "returned") =>
          \A it \in build_statuses : it.status.status # "TRIGGERED"

C28_Witness ==
    /\ pc = "pending_check"
    /\ can_trigger_jobs
    /\ Cardinality(try_builders_to_infer) = 2
    /\ Cardinality(WithoutBuild) = 1
    /\ PlaceholderOf(CHOOSE b \in WithoutBuild : TRUE) = {"TRIGGERED"}
    /\ \A it \in build_statuses : it.status.status # "MISSING"

(***************************************************************************)
(* Properties of signing.py, under SpecSigning.                            *)
(***************************************************************************)
Done(function) == pc = "done" /\ signing_returned.function = function

(* The macOS version is below 10.16. *)
Below_10_16 ==
    \/ macos_version[1] < 10
    \/ /\ macos_version[1] = 10
       /\ Len(macos_version) >= 2 => macos_version[2] < 16

(* The hexadecimal flags have the bit 0x20000: their fifth digit from the *)
(* right has its bit 2.                                                   *)
LinkerSignedBit(flags) ==
    /\ Len(flags) >= 5
    /\ flags[Len(flags) - 4] \in {"2", "3", "6", "7", "a", "b", "e", "f"}

(* codesign --display exits with 0 and reports CodeDirectory flags with the
   linker-signed bit. *)
DisplaysLinkerSigned ==
    /\ display_output.returncode = <<0>>
    /\ \E i \in 1..Len(display_output.stderr) :
          /\ display_output.stderr[i].first = "CodeDirectory"
          /\ LinkerSignedBit(display_output.stderr[i].flags)

IsDisplay(ran) ==
    /\ ran.via = "lenient_run_command_output"
    /\ ran.command[1] = Word("codesign")
    /\ ran.command[2] = Word("--display")
    /\ ran.command[Len(ran.command)] = join(work, part.path)

(* C30: _linker_signed_arm64_needs_force returns True exactly when the
   macOS version is below 10.16, codesign --display exits with 0 and the
   CodeDirectory flags it reports have the bit 0x20000; on macOS 10.16 or
   later it returns False and runs no command, on an earlier macOS it runs
   codesign --display exactly once and nothing else. *)
C30_ForceExactlyForLinkerSigned ==
    Done("_linker_signed_arm64_needs_force") =>
        /\ signing_returned.raised = None
        /\ signing_returned.value = <<Below_10_16 /\ DisplaysLinkerSigned>>
        /\ IF Below_10_16
           THEN Len(commands_run) = 1 /\ IsDisplay(commands_run[1])
           ELSE commands_run = <<>>

C30_Witness ==
    /\ Done("_linker_signed_arm64_needs_force")
    /\ macos_version = <<10, 15>>
    /\ signing_returned.value = <<TRUE>>
    /\ Len(commands_run) = 1

(* The words of the command between the identity and the path. *)
SignCommands == {i \in 1..Len(commands_run) : commands_run[i].via = "run_command"}

Has(c, flag) == \E i \in 4..(Len(c) - 1) : c[i] = Word(flag)

At(c, flag) == CHOOSE i \in 4..(Len(c) - 1) : c[i] = Word(flag)

FlagOrder ==
    <<"--force", "--timestamp", "--identifier", "--requirements", "--options",
      "--entitlements">>

(* The flags the command is to have, and the argument of each that has one. *)
Wanted(flag) ==
    CASE flag = "--force" -> Below_10_16 /\ DisplaysLinkerSigned
      [] flag = "--timestamp" -> config.should_notarize
      [] flag = "--identifier" -> part.sign_with_identifier
      [] flag = "--requirements" -> part.requirements_string # ""
      [] flag = "--options" -> part.options # {}
      [] flag = "--entitlements" -> part.entitlements # None

ArgumentOf(flag) ==
    CASE flag = "--identifier" -> <<Word(part.identifier)>>
      [] flag = "--requirements" -> <<<<"=", part.requirements_string>>>>
      [] flag = "--options" -> <<Word("library,restrict")>>
      [] flag = "--entitlements" -> <<<<work, "/", part.entitlements>>>>
      [] OTHER -> <<>>

WantedFlags == {k \in 1..Len(FlagOrder) : Wanted(FlagOrder[k])}

WellFormedSign(c) ==
    /\ Len(c) >= 4
    /\ c[1] = Word("codesign")
    /\ c[2] = Word("--sign")
    /\ c[3] = Word(config.identity)
    /\ c[Len(c)] = <<work, "/", part.path>>
    /\ \A k \in 1..Len(FlagOrder) : Has(c, FlagOrder[k]) <=> k \in WantedFlags
    /\ \A k, l \in WantedFlags :
          k < l => At(c, FlagOrder[k]) < At(c, FlagOrder[l])
    /\ \A k \in WantedFlags :
          LET a == ArgumentOf(FlagOrder[k]) IN
          a # <<>> => c[At(c, FlagOrder[k]) + 1] = a[1]
    /\ Len(c) = 4 + Cardinality(WantedFlags)
                  + Cardinality({k \in WantedFlags : ArgumentOf(FlagOrder[k]) # <<>>})

(* C23: sign_part runs exactly one codesign --sign command: codesign,
   --sign, the identity, then the flags --force, --timestamp, --identifier
   <id>, --requirements =<reqs>, --options <list>, --entitlements <path> in
   this order, each present exactly when its condition holds (force needed,
   notarization requested, sign_with_identifier, a non-empty requirements
   string, options set, entitlements set), then the path of the part in the
   work directory; the only other command it may run is the codesign
   --display that tells whether force is needed. *)
C23_OneCodesignCommandInFixedOrder ==
    Done("sign_part") =>
        /\ Cardinality(SignCommands) = 1
        /\ \A i \in SignCommands :
              /\ i = Len(commands_run)
              /\ WellFormedSign(commands_run[i].command)
        /\ \A i \in (1..Len(commands_run)) \ SignCommands :
              IsDisplay(commands_run[i])
        /\ Len(commands_run) <= 2

C23_Witness ==
    /\ Done("sign_part")
    /\ WantedFlags = 1..Len(FlagOrder)
    /\ Len(commands_run) = 2
    /\ Len(commands_run[2].command) = 14

(* The offsets lipo reports for the main executable, when it reports any. *)
Offsets == _binary_architectures_offsets(lipo_output)

IsLipo(ran) ==
    /\ ran.via = "run_command_output"
    /\ ran.command[1] = Word("lipo")
    /\ ran.command[2] = Word("-detailed_info")

(* C24: validate_app_geometry returns None and runs no command when the
   config pins no geometry; otherwise it runs lipo on the main executable
   once and, the offsets read, raises InvalidAppGeometryException exactly
   when they differ from the pinned ones and returns None when they are
   equal; when the offsets cannot be read the error of reading them is
   raised. *)
C24_GeometryCheckedAgainstPinned ==
    Done("validate_app_geometry") =>
        IF ~config.pinned
        THEN /\ commands_run = <<>>
             /\ signing_returned.raised = None
             /\ signing_returned.value = <<>>
        ELSE /\ Len(commands_run) = 1
             /\ IsLipo(commands_run[1])
             /\ IF Offsets.raised # None
                THEN signing_returned.raised = Offsets.raised
                ELSE /\ signing_returned.raised = "InvalidAppGeometryException"
                          <=> config.main_executable_pinned_geometry # Offsets.value
                     /\ config.main_executable_pinned_geometry = Offsets.value
                          => /\ signing_returned.raised = None
                             /\ signing_returned.value = <<>>
                     /\ signing_returned.raised \in {None, "InvalidAppGeometryException"}

C24_Witness ==
    /\ Done("validate_app_geometry")
    /\ config.pinned
    /\ Len(config.main_executable_pinned_geometry) = 2
    /\ Offsets.raised = None
    /\ Len(Offsets.value) = 2
    /\ signing_returned.raised = "InvalidAppGeometryException"
    /\ Len(commands_run) = 1

(***************************************************************************)
(* Properties of run_recipe, under SpecRecipe.                             *)
(***************************************************************************)
RecipeDone == pc = "done"

(* The last _run call gave re-run options and the properties chosen from   *)
(* them are a non-empty dict.                                              *)
AskedToRerun == rerun_prop_options # <<>> /\ ~falsy(props_to_use)

RunsWithinCap ==
    /\ Len(invocations) <= 10
    /\ Len(invocations) = iteration
    /\ (pc = "run_recipe" /\ invocations # <<>>) => AskedToRerun
    /\ \A i \in 2..Len(invocations) : ~falsy(invocations[i])
    /\ RecipeDone =>
          \/ recipe_returned.raised # None
          \/ /\ recipe_returned.raised = None
             /\ IF rerun_prop_options = <<>>
                THEN recipe_returned.value =
                         <<exit_code,
                           IF exit_code # 0 THEN "Build/test failure" ELSE None>>
                ELSE IF falsy(props_to_use)
                THEN recipe_returned.value =
                         <<exit_code, "User-aborted due to warning">>
                ELSE /\ Len(invocations) = 10
                     /\ recipe_returned.value =
                            <<1, "Exceeded too many recipe re-runs">>

(* C29: run_recipe always ends, after at most 10 calls of _run: it returns *)
(* as soon as a run gives no re-run options or the chosen properties are   *)
(* empty (it goes on only after a run that gave options with non-empty     *)
(* chosen properties), and when 10 runs in a row did so it returns         *)
(* (1, 'Exceeded too many recipe re-runs') without an 11th call.           *)
C29_RunRecipeEndsWithinTenRuns == []RunsWithinCap /\ <>RecipeDone

C29_Witness ==
    /\ RecipeDone
    /\ Len(invocations) = 10
    /\ AskedToRerun
    /\ recipe_returned = Returns(<<1, "Exceeded too many recipe re-runs">>)

====
